---- MODULE Spec2Model ----
(***************************************************************************)
(* Region-based inpainting commands of koharu (src-tauri/src/commands.rs): *)
(* the single-slot inpainting cache, the session mutexes and the geometry  *)
(* of run_inpainting_pipeline.                                             *)
(*                                                                         *)
(* Coordinates of a BBox are f32 in the source.  Here a coordinate is an   *)
(* integer number of 1/Den pixels, and every product and quotient is exact *)
(* rational arithmetic; floor and ceil are computed on the exact value.    *)
(* Image and mask contents are abstracted to their dimensions and to the   *)
(* identity of the prime call that stored them.                            *)
(***************************************************************************)
EXTENDS Integers, Sequences, FiniteSets, TLC

\* ------------------------------------------------------------------ bounds
NumTasks == 2
MaxIter == 2
Den == 2
MaxCoord == 4
MaxDim == 2
MaxPad == 2
MaxSlack == 1
MaxConf == 2
MaxShift == 2

Tasks == 1..NumTasks

VARIABLES
    inpaint_image_cache,   \* AppState.inpaint_image_cache: NoImage or an image
    inpaint_mask_cache,    \* AppState.inpaint_mask_cache: NoImage or a mask
    lama,                  \* AppState.lama: 0 (free) or the task holding the guard
    comic_text_detector,   \* AppState.comic_text_detector: 0 or the holder
    ocr_pipelines,         \* AppState.ocr_pipelines: the registered keys
    active_ocr,            \* AppState.active_ocr: the key of the active engine
    ocr_sessions,          \* holder (or 0) of each OCR session mutex
    pending_reload,        \* HotReloadManager.pending_reload: 0 or a handle
    reloads,               \* the spawned reload tasks, by handle
    pc,                    \* position of each task inside its command
    loc,                   \* locals of each task's running command
    log,                   \* steps the running command has performed, in order
    result                 \* value returned by the command (at pc = "done")

\* the OCR part of the state
ocr_vars == <<ocr_pipelines, active_ocr, ocr_sessions>>

\* the hot-reload part of the state
reload_vars == <<pending_reload, reloads>>

vars == <<inpaint_image_cache, inpaint_mask_cache, lama, comic_text_detector,
          ocr_vars, reload_vars, pc, loc, log, result>>

\* ------------------------------------------------------------- arithmetic
Min(a, b) == IF a < b THEN a ELSE b
Max(a, b) == IF a > b THEN a ELSE b

\* f32::floor / f32::ceil of the rational n/d, d > 0
Floor(n, d) == n \div d
Ceil(n, d) == -((-n) \div d)

\* f32::clamp(lo, hi), lo <= hi
Clamp(v, lo, hi) == IF v < lo THEN lo ELSE IF v > hi THEN hi ELSE v

\* u32::saturating_sub
SaturatingSub(a, b) == IF a > b THEN a - b ELSE 0

\* `f32 as u32` on an integral value: negative values saturate to 0
AsU32(v) == IF v < 0 THEN 0 ELSE v

\* ------------------------------------------------------------------ values
NoImage == [id |-> 0, w |-> 0, h |-> 0]
NoBBox == [xmin |-> 0, ymin |-> 0, xmax |-> 0, ymax |-> 0]
NoCrop == [x |-> 0, y |-> 0, x2 |-> 0, y2 |-> 0]
NoDims == [w |-> 0, h |-> 0]
\* a notify event: Ok(event) or Err, its kind and the file name of its path
NoEvent == [ok |-> FALSE, kind |-> "", file_name |-> ""]
\* an f64 error rate as the fraction num / den
NoRate == [num |-> 0, den |-> 1]
\* a GrayImage with its bytes: px[y + 1][x + 1] is the pixel (x, y)
NoGray == [w |-> 0, h |-> 0, px |-> <<>>]

\* InpaintConfig: the fields that decide geometry and control flow
NoConfig == [padding |-> 0, mask_dilation |-> 0, mask_erosion |-> 0,
             debug_mode |-> FALSE]

NoCall == [op |-> "none", image |-> NoImage, mask |-> NoImage, bbox |-> NoBBox,
           cfg |-> NoConfig, crop |-> NoCrop, cropped_image |-> NoDims,
           mask_bbox |-> NoBBox, cropped_mask |-> NoDims, iter |-> 0,
           confidence_threshold |-> 0, nms_threshold |-> [n |-> 0, d |-> 1],
           out |-> [run_ok |-> FALSE, seg_ok |-> FALSE,
                    blk |-> [rank |-> 0, cols |-> 0, rows |-> <<>>]],
           guards |-> {}, active_key |-> "", model_key |-> "",
           engine |-> "", fallback |-> FALSE, regions |-> 0,
           mask_threshold |-> 0, target |-> NoDims, pixels |-> NoGray,
           thresholded |-> NoGray, morphed |-> NoGray, resized |-> NoGray,
           ground_truth |-> <<>>, predicted |-> <<>>,
           event |-> NoEvent, handle |-> 0]

NoResult == [status |-> "none", x |-> 0, y |-> 0, width |-> 0, height |-> 0,
             image_len |-> 0, mask_len |-> 0, mask_width |-> 0,
             mask_height |-> 0, padded_bbox |-> NoBBox, bboxes |-> <<>>,
             engine |-> "", region_count |-> 0, mask |-> NoGray,
             cer |-> NoRate, wer |-> NoRate]

Failure(status) == [NoResult EXCEPT !.status = status]

\* ------------------------------------------------- run_inpainting_pipeline
\* padded_min_x / padded_min_y: v is in 1/Den pixels, the result in pixels
PaddedMin(v, padding, dim) ==
    Clamp(Floor(v - padding * Den, Den), 0, SaturatingSub(dim, 1))

\* faulty variant of PaddedMax: the maximum is clamped like the minimum
PaddedMaxShort(v, padding, dim) ==
    Clamp(Ceil(v + padding * Den, Den), 0, SaturatingSub(dim, 1))

\* padded_max_x / padded_max_y
PaddedMax(v, padding, dim) ==
    Clamp(Ceil(v + padding * Den, Den), 0, dim)

\* crop_x, crop_y, crop_x2, crop_y2
PadAndClamp(bbox, padding, image_width, image_height) ==
    [x  |-> AsU32(PaddedMin(bbox.xmin, padding, image_width)),
     y  |-> AsU32(PaddedMin(bbox.ymin, padding, image_height)),
     x2 |-> AsU32(PaddedMax(bbox.xmax, padding, image_width)),
     y2 |-> AsU32(PaddedMax(bbox.ymax, padding, image_height))]

\* faulty variant of ValidCrop: a crop one pixel wide or high is rejected
ValidCropStrict(c) == c.x2 > c.x + 1 /\ c.y2 > c.y + 1

\* the negation of the bail! condition
ValidCrop(c) == c.x2 > c.x /\ c.y2 > c.y

\* faulty variant of PaddedBBox: the size in place of the far corner
PaddedBBoxSized(c) ==
    [xmin |-> c.x, ymin |-> c.y, xmax |-> c.x2 - c.x, ymax |-> c.y2 - c.y]

\* padded_bbox: the crop as a BBox (integral f32 values, in pixels)
PaddedBBox(c) == [xmin |-> c.x, ymin |-> c.y, xmax |-> c.x2, ymax |-> c.y2]

\* DynamicImage::crop_imm: the requested window is cut to the image
CropImm(image, x, y, width, height) ==
    [w |-> Min(width, image.w - Min(x, image.w)),
     h |-> Min(height, image.h - Min(y, image.h))]

\* ------------------------------------------------- extract_and_resize_mask
\* faulty variants of MaskMin and MaskMax: uniform rounding
MaskMinCeil(v, src, msk) == AsU32(Max(Ceil(v * msk, src), 0))
MaskMaxFloor(v, src, msk) == AsU32(Min(Floor(v * msk, src), msk))

\* mask_xmin / mask_ymin: (v * scale).floor().max(0.0) as u32, scale = msk/src
MaskMin(v, src, msk) == AsU32(Max(Floor(v * msk, src), 0))

\* mask_xmax / mask_ymax: (v * scale).ceil().min(mask_dim) as u32
MaskMax(v, src, msk) == AsU32(Min(Ceil(v * msk, src), msk))

\* faulty variant of ToMaskSpace: the rectangle is not scaled
ToMaskSpaceUnscaled(bbox, orig_width, orig_height, mask_width, mask_height) ==
    [xmin |-> MaskMin(bbox.xmin, 1, 1),
     ymin |-> MaskMin(bbox.ymin, 1, 1),
     xmax |-> AsU32(Min(bbox.xmax, mask_width)),
     ymax |-> AsU32(Min(bbox.ymax, mask_height))]

\* mask_xmin, mask_ymin, mask_xmax, mask_ymax
ToMaskSpace(bbox, orig_width, orig_height, mask_width, mask_height) ==
    [xmin |-> MaskMin(bbox.xmin, orig_width, mask_width),
     ymin |-> MaskMin(bbox.ymin, orig_height, mask_height),
     xmax |-> MaskMax(bbox.xmax, orig_width, mask_width),
     ymax |-> MaskMax(bbox.ymax, orig_height, mask_height)]

\* mask_crop_width x mask_crop_height
MaskCropDims(m) == [w |-> SaturatingSub(m.xmax, m.xmin),
                    h |-> SaturatingSub(m.ymax, m.ymin)]

\* dilate_mask / erode_mask keep the dimensions of their argument
DilateMask(dims, kernel_size) == dims
ErodeMask(dims, kernel_size) == dims

\* faulty variant of ResizeMask: the mask crop keeps its mask-space size
ResizeMaskKeep(dims, target_width, target_height) == dims

\* image::imageops::resize(.., target_width, target_height, Nearest)
ResizeMask(dims, target_width, target_height) ==
    [w |-> target_width, h |-> target_height]

\* the mask handed back by extract_and_resize_mask, after a valid mask crop
MorphAndResize(dims, target_width, target_height, cfg) ==
    LET morphed == IF cfg.mask_dilation > 0
                   THEN DilateMask(dims, cfg.mask_dilation) ELSE dims
        resized == ResizeMask(morphed, target_width, target_height)
    IN  IF cfg.mask_erosion > 0 THEN ErodeMask(resized, cfg.mask_erosion)
        ELSE resized

\* ------------------------------------- extract_and_resize_mask: the bytes
\* `kernel_size as u8`
AsU8(v) == v % 256

GetPixel(image, x, y) == image.px[y + 1][x + 1]

\* the pixels (x, y) of an image
Positions(image) == (0..(image.w - 1)) \X (0..(image.h - 1))

Abs(v) == IF v < 0 THEN -v ELSE v

\* Norm::LInf
LInf(p, q) == Max(Abs(p[1] - q[1]), Abs(p[2] - q[2]))

\* imageproc distance_transform: the distance of (x, y) to the nearest
\* pixel of non-zero intensity, saturating at 255
DistanceTransform(image, x, y) ==
    LET foreground == {q \in Positions(image) : GetPixel(image, q[1], q[2]) # 0}
        near(k) == \E q \in foreground : LInf(<<x, y>>, q) <= k
    IN  IF foreground = {} THEN 255
        ELSE Min(255, CHOOSE k \in 0..(image.w + image.h) :
                         near(k) /\ \A j \in 0..(k - 1) : ~near(j))

\* imageproc::morphology::dilate(image, Norm::LInf, k): white within
\* distance k of a pixel of non-zero intensity, black elsewhere
dilate(image, k) ==
    [image EXCEPT !.px =
        [y \in 1..image.h |->
            [x \in 1..image.w |->
                IF DistanceTransform(image, x - 1, y - 1) <= k
                THEN 255 ELSE 0]]]

\* the loop pixel[0] = 255 - pixel[0]
Invert(image) ==
    [image EXCEPT !.px =
        [y \in 1..image.h |-> [x \in 1..image.w |-> 255 - image.px[y][x]]]]

dilate_mask(mask, kernel_size) == dilate(mask, AsU8(kernel_size))

erode_mask(mask, kernel_size) ==
    Invert(dilate(Invert(mask), AsU8(kernel_size)))

\* faulty variant of Thresholded: a byte equal to the threshold is zeroed
ThresholdedAtOrBelow(cropped_mask, mask_threshold) ==
    [cropped_mask EXCEPT !.px =
        [y \in 1..cropped_mask.h |->
            [x \in 1..cropped_mask.w |->
                IF cropped_mask.px[y][x] <= mask_threshold THEN 0
                ELSE cropped_mask.px[y][x]]]]

\* thresholded: bytes below mask_threshold become 0
Thresholded(cropped_mask, mask_threshold) ==
    [cropped_mask EXCEPT !.px =
        [y \in 1..cropped_mask.h |->
            [x \in 1..cropped_mask.w |->
                IF cropped_mask.px[y][x] < mask_threshold THEN 0
                ELSE cropped_mask.px[y][x]]]]

\* the source coordinate sampled for output coordinate i when an axis of
\* len pixels is resized to nlen: floor((i + 0.5) * len / nlen), clamped
Nearest(i, len, nlen) ==
    Clamp(Floor((2 * i + 1) * len, 2 * nlen), 0, len - 1)

\* image::imageops::resize(image, nwidth, nheight, FilterType::Nearest)
resize(image, nwidth, nheight) ==
    IF image.w = 0 \/ image.h = 0
    THEN [w |-> nwidth, h |-> nheight,
          px |-> [y \in 1..nheight |-> [x \in 1..nwidth |-> 0]]]
    ELSE [w |-> nwidth, h |-> nheight,
          px |-> [y \in 1..nheight |->
                    [x \in 1..nwidth |->
                        GetPixel(image, Nearest(x - 1, image.w, nwidth),
                                 Nearest(y - 1, image.h, nheight))]]]

\* ----------------------------------------------------------- accuracy.rs
\* A text is a sequence of characters: a letter, a space or a combining
\* mark (U+0301), which extends the grapheme cluster before it.
LETTER == "a"
SPACE == " "
MARK == "'"

\* str::graphemes(true): a combining mark joins the cluster of the
\* character before it; a mark at the start of the text stands alone
RECURSIVE GraphemesFrom(_, _, _)
GraphemesFrom(text, i, clusters) ==
    IF i > Len(text) THEN clusters
    ELSE IF text[i] = MARK /\ clusters # <<>>
    THEN GraphemesFrom(text, i + 1,
             [clusters EXCEPT ![Len(clusters)] = @ \o <<text[i]>>])
    ELSE GraphemesFrom(text, i + 1, Append(clusters, <<text[i]>>))

Graphemes(text) == GraphemesFrom(text, 1, <<>>)

\* str::split_whitespace: the maximal runs of characters that are not
\* white space
RECURSIVE SplitFrom(_, _, _, _)
SplitFrom(text, i, words, word) ==
    IF i > Len(text)
    THEN IF word = <<>> THEN words ELSE Append(words, word)
    ELSE IF text[i] = SPACE
    THEN SplitFrom(text, i + 1,
                   IF word = <<>> THEN words ELSE Append(words, word), <<>>)
    ELSE SplitFrom(text, i + 1, words, Append(word, text[i]))

SplitWhitespace(text) == SplitFrom(text, 1, <<>>, <<>>)

\* the matrix of levenshtein_distance after both loops
Matrix(a, b) ==
    LET matrix[i \in 0..Len(a), j \in 0..Len(b)] ==
            IF i = 0 THEN j
            ELSE IF j = 0 THEN i
            ELSE LET cost == IF a[i] = b[j] THEN 0 ELSE 1
                 IN  Min(Min(matrix[i - 1, j] + 1, matrix[i, j - 1] + 1),
                         matrix[i - 1, j - 1] + cost)
    IN  matrix

\* faulty variant of levenshtein_distance: a substitution costs 2
levenshtein_distance_indel(a, b) ==
    LET matrix[i \in 0..Len(a), j \in 0..Len(b)] ==
            IF i = 0 THEN j
            ELSE IF j = 0 THEN i
            ELSE LET cost == IF a[i] = b[j] THEN 0 ELSE 2
                 IN  Min(Min(matrix[i - 1, j] + 1, matrix[i, j - 1] + 1),
                         matrix[i - 1, j - 1] + cost)
    IN  matrix[Len(a), Len(b)]

levenshtein_distance(a, b) ==
    IF Len(a) = 0 THEN Len(b)
    ELSE IF Len(b) = 0 THEN Len(a)
    ELSE Matrix(a, b)[Len(a), Len(b)]

\* distance as f64 / len as f64, or the constant of the empty ground truth
ErrorRate(gt, pred) ==
    IF gt = <<>>
    THEN IF pred = <<>> THEN [num |-> 0, den |-> 1] ELSE [num |-> 1, den |-> 1]
    ELSE [num |-> levenshtein_distance(gt, pred), den |-> Len(gt)]

character_error_rate(ground_truth, predicted) ==
    ErrorRate(Graphemes(ground_truth), Graphemes(predicted))

word_error_rate(ground_truth, predicted) ==
    ErrorRate(SplitWhitespace(ground_truth), SplitWhitespace(predicted))

\* ------------------------------------------------ output reconciliation
\* Vec::resize(n, 0) and Vec::truncate(n) on a buffer of length len
VecResize(len, n) == n
\* faulty variant of VecTruncate: the buffer keeps its length
VecTruncateNoop(len, n) == len
VecTruncate(len, n) == IF n < len THEN n ELSE len

\* An output of the collaborator: width, height and the length of the raw
\* RGBA buffer behind it (width*height*4 + slack).
RawLen(out) == out.w * out.h * 4 + out.slack

\* output_rgba after the dimension correction: resize_exact yields a buffer
\* of exactly crop_width*crop_height*4 bytes
Resample(out, crop_width, crop_height) ==
    IF out.w # crop_width \/ out.h # crop_height
    THEN [w |-> crop_width, h |-> crop_height, slack |-> 0]
    ELSE out

\* output_pixels after the length correction
ReconcileLen(len, expected_pixel_bytes) ==
    IF len # expected_pixel_bytes
    THEN IF len < expected_pixel_bytes
         THEN VecResize(len, expected_pixel_bytes)
         ELSE VecTruncate(len, expected_pixel_bytes)
    ELSE len

ExpectedPixelBytes(crop_width, crop_height) == crop_width * crop_height * 4

\* the corrections the reconciler logged, in order
ReconcileLog(out, crop_width, crop_height) ==
    LET r == Resample(out, crop_width, crop_height)
        e == ExpectedPixelBytes(crop_width, crop_height)
    IN  (IF r # out THEN <<"resample">> ELSE <<>>)
        \o (IF RawLen(r) < e THEN <<"zero_pad">>
            ELSE IF RawLen(r) > e THEN <<"truncate">> ELSE <<>>)

\* InpaintedRegion built by the Ok(..) at the end of the pipeline
Region(c, out) ==
    LET crop_width == c.crop.x2 - c.crop.x
        crop_height == c.crop.y2 - c.crop.y
        r == Resample(out, crop_width, crop_height)
    IN  [status |-> "ok", x |-> c.crop.x, y |-> c.crop.y,
         width |-> crop_width, height |-> crop_height,
         image_len |-> ReconcileLen(RawLen(r),
                           ExpectedPixelBytes(crop_width, crop_height)),
         mask_len |-> c.cropped_mask.w * c.cropped_mask.h,
         mask_width |-> crop_width, mask_height |-> crop_height,
         padded_bbox |-> PaddedBBox(c.crop)]

\* ---------------------------------------------------------------- detector
\* A box tensor is [rank, cols, rows]: rows is the sequence of the tensor's
\* rows (axis 1), each row the sequence of its cols values (axis 2).  Column
\* j of the code is element j + 1 of the row.  Confidences and class scores
\* are integers in a common unit; thresholds are in the same unit.
Blk(rank, cols, rows) ==
    [rank |-> rank, cols |-> cols,
     rows |-> [i \in 1..Len(rows) |-> SubSeq(rows[i], 1, cols)]]

\* blk[[0, i, j]] is inside the tensor (ndarray panics otherwise)
InBounds(blk, i, j) == blk.rank = 3 /\ i <= Len(blk.rows) /\ j < blk.cols
At(blk, i, j) == blk.rows[i][j + 1]

\* faulty variant of ClassIndex: a tie goes to class 1
ClassIndexTieToOne(blk, i) == IF At(blk, i, 5) <= At(blk, i, 6) THEN 1 ELSE 0

\* class_index of row i
ClassIndex(blk, i) == IF At(blk, i, 5) < At(blk, i, 6) THEN 1 ELSE 0

\* class_index of row i in the standalone detector binary
MainClassIndex(blk, i) == IF At(blk, i, 5) < At(blk, i, 6) THEN 1 ELSE 0

\* The Bbox pushed for row i.  center_x = cx * orig_width / 1024 and
\* width = w * orig_width / 1024, so xmin = (2 cx - w) * orig_width / 2048:
\* coordinates are kept as numerators over 2048.
DecodeBox(blk, i, image) ==
    [xmin |-> (2 * At(blk, i, 0) - At(blk, i, 2)) * image.w,
     ymin |-> (2 * At(blk, i, 1) - At(blk, i, 3)) * image.h,
     xmax |-> (2 * At(blk, i, 0) + At(blk, i, 2)) * image.w,
     ymax |-> (2 * At(blk, i, 1) + At(blk, i, 3)) * image.h,
     confidence |-> At(blk, i, 4)]

\* faulty variant of BelowThreshold: a row at the threshold is discarded
BelowOrAtThreshold(confidence, confidence_threshold) ==
    confidence <= confidence_threshold

\* the row is skipped
BelowThreshold(confidence, confidence_threshold) ==
    confidence < confidence_threshold

Panicked == [panicked |-> TRUE, boxes |-> <<<<>>, <<>>>>]

\* class_index as the program computes it: the standalone binary (main)
\* or the detector of the application
ClassOf(main, blk, i) ==
    IF main THEN MainClassIndex(blk, i) ELSE ClassIndex(blk, i)

\* The decode loop from row i on; boxes holds the two per-class lists.
RECURSIVE DecodeFrom(_, _, _, _, _, _)
DecodeFrom(blk, image, confidence_threshold, main, i, boxes) ==
    IF i > Len(blk.rows) THEN [panicked |-> FALSE, boxes |-> boxes]
    ELSE IF ~InBounds(blk, i, 4) THEN Panicked
    ELSE IF BelowThreshold(At(blk, i, 4), confidence_threshold)
         THEN DecodeFrom(blk, image, confidence_threshold, main, i + 1, boxes)
    ELSE IF ~InBounds(blk, i, 6) THEN Panicked
    ELSE DecodeFrom(blk, image, confidence_threshold, main, i + 1,
                    [boxes EXCEPT ![ClassOf(main, blk, i) + 1] =
                        Append(@, DecodeBox(blk, i, image))])

\* for i in 0..blk.shape()[1] { .. }: shape()[1] itself needs rank >= 2
Decode(blk, image, confidence_threshold, main) ==
    IF blk.rank < 2 THEN Panicked
    ELSE DecodeFrom(blk, image, confidence_threshold, main, 1, <<<<>>, <<>>>>)

\* ------------------------------------------------ non-maximum suppression
\* area of the intersection and of the union of two boxes
Intersection(a, b) ==
    Max(0, Min(a.xmax, b.xmax) - Max(a.xmin, b.xmin))
        * Max(0, Min(a.ymax, b.ymax) - Max(a.ymin, b.ymin))
Area(a) == (a.xmax - a.xmin) * (a.ymax - a.ymin)
Union(a, b) == Area(a) + Area(b) - Intersection(a, b)

\* intersection / union > n / d, as the floating-point division decides it:
\* x / 0 is +infinity for x > 0 and 0 / 0 is not a number (greater than
\* nothing)
IoUAbove(a, b, thr) ==
    LET i == Intersection(a, b)
        u == Union(a, b)
    IN  IF u > 0 THEN i * thr.d > thr.n * u
        ELSE IF u = 0 THEN i > 0
        ELSE i * thr.d < thr.n * u

\* b put into a list sorted by confidence, descending, behind every box of
\* the same confidence (stable sort)
RECURSIVE Insert(_, _)
Insert(sorted, b) ==
    IF sorted = <<>> THEN <<b>>
    ELSE IF Head(sorted).confidence >= b.confidence
         THEN <<Head(sorted)>> \o Insert(Tail(sorted), b)
         ELSE <<b>> \o sorted

RECURSIVE SortByConfidence(_)
SortByConfidence(list) ==
    IF list = <<>> THEN <<>>
    ELSE Insert(SortByConfidence(SubSeq(list, 1, Len(list) - 1)),
                list[Len(list)])

\* the candidates taken in order: one is kept unless a box kept before it
\* overlaps it by more than the threshold
RECURSIVE Greedy(_, _, _)
Greedy(candidates, thr, kept) ==
    IF candidates = <<>> THEN kept
    ELSE LET b == Head(candidates)
             drop == \E k \in 1..Len(kept) : IoUAbove(kept[k], b, thr)
         IN  Greedy(Tail(candidates), thr,
                    IF drop THEN kept ELSE Append(kept, b))

\* faulty variant of NmsClass: every candidate is emitted
NmsClassKeepAll(list, thr) == SortByConfidence(list)

\* faulty variant of NmsClass: the best candidate is lost
NmsClassSkipBest(list, thr) ==
    LET kept == Greedy(SortByConfidence(list), thr, <<>>)
    IN  IF kept = <<>> THEN <<>> ELSE Tail(kept)

\* suppression within one class
NmsClass(list, thr) == Greedy(SortByConfidence(list), thr, <<>>)

\* index of the first box of the list equal to b (0 when there is none)
IndexOf(list, b) ==
    IF \E i \in 1..Len(list) : list[i] = b
    THEN CHOOSE i \in 1..Len(list) :
             list[i] = b /\ \A j \in 1..(i - 1) : list[j] # b
    ELSE 0

\* faulty variant of non_maximum_suppression: one suppression over the
\* boxes of both classes
NmsAcrossClasses(boxes, thr) ==
    LET all == NmsClass(boxes[1] \o boxes[2], thr)
        Of(c) == SelectSeq(SortByConfidence(boxes[c]),
                           LAMBDA b : IndexOf(all, b) # 0)
    IN  <<Of(1), Of(2)>>

\* non_maximum_suppression(&mut boxes, nms_threshold)
NonMaximumSuppression(boxes, thr) ==
    <<NmsClass(boxes[1], thr), NmsClass(boxes[2], thr)>>

\* Convert to output format: class 0 first, then class 1
RECURSIVE Classified(_, _)
Classified(list, class) ==
    IF list = <<>> THEN <<>>
    ELSE <<[xmin |-> Head(list).xmin, ymin |-> Head(list).ymin,
            xmax |-> Head(list).xmax, ymax |-> Head(list).ymax,
            confidence |-> Head(list).confidence, class |-> class]>>
         \o Classified(Tail(list), class)

ClassifiedBboxes(boxes) == Classified(boxes[1], 0) \o Classified(boxes[2], 1)

\* ------------------------------------------------------------------- state
PADDLE_OCR_KEY == "paddle-ocr"
MANGA_OCR_KEY == "manga-ocr"

\* PaddleOcrPipeline.det_session, .rec_session and MangaOcrPipeline.inner
Sessions == {"det_session", "rec_session", "inner"}

Init ==
    /\ inpaint_image_cache = NoImage
    /\ inpaint_mask_cache = NoImage
    /\ lama = 0
    /\ comic_text_detector = 0
    /\ ocr_pipelines = {PADDLE_OCR_KEY, MANGA_OCR_KEY}
    /\ active_ocr = MANGA_OCR_KEY
    /\ ocr_sessions = [s \in Sessions |-> 0]
    /\ pending_reload = 0
    /\ reloads = <<>>
    /\ pc = [t \in Tasks |-> "idle"]
    /\ loc = [t \in Tasks |-> NoCall]
    /\ log = [t \in Tasks |-> <<>>]
    /\ result = [t \in Tasks |-> NoResult]

\* the command of task t returns r after performing the steps in events
Finish(t, r, events) ==
    /\ pc' = [pc EXCEPT ![t] = "done"]
    /\ result' = [result EXCEPT ![t] = r]
    /\ log' = [log EXCEPT ![t] = log[t] \o events]

\* the command of task t moves on to position next
Goto(t, next, events) ==
    /\ pc' = [pc EXCEPT ![t] = next]
    /\ log' = [log EXCEPT ![t] = log[t] \o events]
    /\ UNCHANGED result

\* faulty variant of LamaFree: lock() completes while a guard is alive
LamaAlwaysFree == TRUE

\* tokio Mutex::lock().await completes only while no guard is alive
LamaFree == lama = 0
DetectorFree == comic_text_detector = 0

\* tokio RwLock::write().await completes only while no other task holds a
\* guard of the lock.  loc[u].guards are the RwLock guards the command of
\* task u keeps alive across its suspension points; a guard taken and
\* dropped between two suspension points excludes nobody for longer than
\* that block.
RwWriteFree(name, t) == \A u \in Tasks \ {t} : name \notin loc[u].guards

\* The identity of a decoded page: an id that no cache slot and no running
\* command refers to.  When every prime call gets a fresh id, two slots or
\* snapshots carry the same id exactly when the same prime call stored them.
IdsInUse ==
    {inpaint_image_cache.id, inpaint_mask_cache.id}
        \cup {loc[t].image.id : t \in Tasks} \cup {loc[t].mask.id : t \in Tasks}
FreshId == CHOOSE i \in 1..(2 * NumTasks + 3) :
               /\ i \notin IdsInUse
               /\ \A j \in 1..(i - 1) : j \in IdsInUse

\* faulty variant of Prepare: the pipeline takes the LaMa lock before it
\* validates the padded rectangle and drops the guard on the early return
\* (only the degenerate path is kept)
PrepareLockFirst(t, c, saved) ==
    LET crop == PadAndClamp(c.bbox, c.cfg.padding, c.image.w, c.image.h)
    IN  /\ LamaFree
        /\ ~ValidCrop(crop)
        /\ loc' = [loc EXCEPT ![t] = [c EXCEPT !.crop = crop]]
        /\ Finish(t, Failure("InvalidPaddedBBox"), <<"lock_lama", "pad_clamp">>)

\* -------------------------------------------------- run_inpainting_pipeline
\* The pipeline of call c from its start to the point where it awaits the
\* LaMa mutex: padding and clamping, the degenerate check, the image crop,
\* the mask extraction and (debug mode) the triptych, whose save may fail.
\* Nothing here reads or writes shared state.
Prepare(t, c, saved) ==
    LET crop == PadAndClamp(c.bbox, c.cfg.padding, c.image.w, c.image.h)
        crop_width == crop.x2 - crop.x
        crop_height == crop.y2 - crop.y
        cropped_image == CropImm(c.image, crop.x, crop.y, crop_width, crop_height)
        mask_bbox == ToMaskSpace(PaddedBBox(crop), c.image.w, c.image.h,
                                 c.mask.w, c.mask.h)
        mask_crop == MaskCropDims(mask_bbox)
        cropped_mask == MorphAndResize(mask_crop, crop_width, crop_height, c.cfg)
    IN  IF ~ValidCrop(crop)
        THEN /\ loc' = [loc EXCEPT ![t] = [c EXCEPT !.crop = crop]]
             /\ Finish(t, Failure("InvalidPaddedBBox"), <<"pad_clamp">>)
        ELSE IF mask_crop.w = 0 \/ mask_crop.h = 0
        THEN /\ loc' = [loc EXCEPT ![t] =
                          [c EXCEPT !.crop = crop,
                                    !.cropped_image = cropped_image,
                                    !.mask_bbox = mask_bbox]]
             /\ Finish(t, Failure("InvalidMaskCrop"),
                       <<"pad_clamp", "crop_image", "map_mask">>)
        ELSE /\ loc' = [loc EXCEPT ![t] =
                          [c EXCEPT !.crop = crop,
                                    !.cropped_image = cropped_image,
                                    !.mask_bbox = mask_bbox,
                                    !.cropped_mask = cropped_mask]]
             /\ IF c.cfg.debug_mode /\ ~saved
                THEN Finish(t, Failure("DebugSaveFailed"),
                            <<"pad_clamp", "crop_image", "map_mask",
                              "crop_mask", "resize_mask", "debug_triptych">>)
                ELSE Goto(t, "lama_lock",
                          <<"pad_clamp", "crop_image", "map_mask",
                            "crop_mask", "resize_mask">>)

\* state.lama.lock().await
AcquireLama(t) ==
    /\ pc[t] = "lama_lock"
    /\ LamaFree
    /\ lama' = t
    /\ Goto(t, "lama_infer", <<"lock_lama">>)
    /\ UNCHANGED <<reload_vars, ocr_vars, inpaint_image_cache, inpaint_mask_cache,
                   comic_text_detector, loc>>

\* faulty variant of InferenceReturn: a failed call is tried again
InferenceReturnRetry(t, out, saved) ==
    /\ pc[t] = "lama_infer"
    /\ lama' = 0
    /\ IF ~out.ok
       THEN Goto(t, "lama_lock", <<"inference">>)
       ELSE Finish(t, Region(loc[t], out), <<"inference">>)
    /\ UNCHANGED <<reload_vars, ocr_vars, inpaint_image_cache, inpaint_mask_cache,
                   comic_text_detector, loc>>

\* inference_with_size returns out (or fails) and the guard is dropped; then
\* (debug mode) the output is saved, and the output is reconciled.
InferenceReturn(t, out, saved) ==
    /\ pc[t] = "lama_infer"
    /\ lama' = 0
    /\ IF ~out.ok
       THEN Finish(t, Failure("InferenceFailed"), <<"inference">>)
       ELSE IF loc[t].cfg.debug_mode /\ ~saved
       THEN Finish(t, Failure("DebugSaveFailed"), <<"inference", "debug_output">>)
       ELSE Finish(t, Region(loc[t], out),
                   <<"inference">>
                   \o ReconcileLog(out, loc[t].crop.x2 - loc[t].crop.x,
                                   loc[t].crop.y2 - loc[t].crop.y))
    /\ UNCHANGED <<reload_vars, ocr_vars, inpaint_image_cache, inpaint_mask_cache,
                   comic_text_detector, loc>>

\* ---------------------------------------------------- cache_inpainting_data
\* Both PNGs are decoded before either slot is written; a decode failure
\* returns with the cache untouched.  Otherwise the first block takes the
\* write lock of the image slot, stores the image and releases the lock.
CacheInpaintingData(t, image, mask, decoded) ==
    /\ pc[t] = "idle"
    /\ IF decoded
       THEN /\ loc' = [loc EXCEPT ![t] =
                         [NoCall EXCEPT !.op = "cache_inpainting_data",
                                        !.image = image, !.mask = mask]]
            /\ RwWriteFree("inpaint_image_cache", t)
            /\ inpaint_image_cache' = image
            /\ Goto(t, "prime_mask", <<"write_image">>)
       ELSE /\ loc' = [loc EXCEPT ![t] =
                         [NoCall EXCEPT !.op = "cache_inpainting_data"]]
            /\ UNCHANGED inpaint_image_cache
            /\ Finish(t, Failure("DecodeFailed"), <<>>)
    /\ UNCHANGED <<reload_vars, ocr_vars, inpaint_mask_cache, lama, comic_text_detector>>

\* { let mut mask_cache = ...write().await; *mask_cache = Some(..); }
PrimeMask(t) ==
    /\ pc[t] = "prime_mask"
    /\ RwWriteFree("inpaint_mask_cache", t)
    /\ inpaint_mask_cache' = loc[t].mask
    /\ Finish(t, [NoResult EXCEPT !.status = "ok"], <<"write_mask">>)
    /\ UNCHANGED <<reload_vars, ocr_vars, inpaint_image_cache, lama, comic_text_detector, loc>>

\* --------------------------------------------------- clear_inpainting_cache
\* { let mut image_cache = ...write().await; *image_cache = None; }
ClearInpaintingCache(t) ==
    /\ pc[t] = "idle"
    /\ loc' = [loc EXCEPT ![t] = [NoCall EXCEPT !.op = "clear_inpainting_cache"]]
    /\ RwWriteFree("inpaint_image_cache", t)
    /\ inpaint_image_cache' = NoImage
    /\ Goto(t, "clear_mask", <<"write_image">>)
    /\ UNCHANGED <<reload_vars, ocr_vars, inpaint_mask_cache, lama, comic_text_detector>>

\* faulty variant of ClearMask: the mask slot is left as it is
ClearMaskSkipped(t) ==
    /\ pc[t] = "clear_mask"
    /\ Finish(t, [NoResult EXCEPT !.status = "ok"], <<"write_mask">>)
    /\ UNCHANGED <<reload_vars, ocr_vars, inpaint_image_cache, inpaint_mask_cache, lama,
                   comic_text_detector, loc>>

\* { let mut mask_cache = ...write().await; *mask_cache = None; }
ClearMask(t) ==
    /\ pc[t] = "clear_mask"
    /\ RwWriteFree("inpaint_mask_cache", t)
    /\ inpaint_mask_cache' = NoImage
    /\ Finish(t, [NoResult EXCEPT !.status = "ok"], <<"write_mask">>)
    /\ UNCHANGED <<reload_vars, ocr_vars, inpaint_image_cache, lama, comic_text_detector, loc>>

\* ---------------------------------------------------- inpaint_region_cached
\* let image_arc = { guard = ...read().await; guard.clone().ok_or_else(..)? }
InpaintRegionCached(t, bbox, cfg) ==
    /\ pc[t] = "idle"
    /\ IF inpaint_image_cache = NoImage
       THEN /\ loc' = [loc EXCEPT ![t] =
                         [NoCall EXCEPT !.op = "inpaint_region_cached",
                                        !.bbox = bbox, !.cfg = cfg]]
            /\ Finish(t, Failure("CacheMiss"), <<"read_image">>)
       ELSE /\ loc' = [loc EXCEPT ![t] =
                         [NoCall EXCEPT !.op = "inpaint_region_cached",
                                        !.bbox = bbox, !.cfg = cfg,
                                        !.image = inpaint_image_cache]]
            /\ Goto(t, "read_mask", <<"read_image">>)
    /\ UNCHANGED <<reload_vars, ocr_vars, inpaint_image_cache, inpaint_mask_cache, lama,
                   comic_text_detector>>

\* let mask_arc = { guard = ...read().await; guard.clone().ok_or_else(..)? }
\* and then run_inpainting_pipeline up to its await of the LaMa mutex
ReadMask(t, saved) ==
    /\ pc[t] = "read_mask"
    /\ IF inpaint_mask_cache = NoImage
       THEN /\ Finish(t, Failure("CacheMiss"), <<"read_mask">>)
            /\ UNCHANGED loc
       ELSE Prepare(t, [loc[t] EXCEPT !.mask = inpaint_mask_cache], saved)
    /\ UNCHANGED <<reload_vars, ocr_vars, inpaint_image_cache, inpaint_mask_cache, lama,
                   comic_text_detector>>

\* ----------------------------------------------------------- inpaint_region
\* The legacy path: the caller passes raw buffers with their dimensions; a
\* buffer whose length does not match its dimensions is rejected.  Then
\* run_inpainting_pipeline up to its await of the LaMa mutex.
InpaintRegion(t, image, mask, lengths_ok, bbox, cfg, saved) ==
    /\ pc[t] = "idle"
    /\ IF lengths_ok
       THEN Prepare(t, [NoCall EXCEPT !.op = "inpaint_region", !.image = image,
                                      !.mask = mask, !.bbox = bbox, !.cfg = cfg],
                    saved)
       ELSE /\ loc' = [loc EXCEPT ![t] = [NoCall EXCEPT !.op = "inpaint_region"]]
            /\ Finish(t, Failure("LengthMismatch"), <<>>)
    /\ UNCHANGED <<reload_vars, ocr_vars, inpaint_image_cache, inpaint_mask_cache, lama,
                   comic_text_detector>>

\* ------------------------------------------------- extract_and_resize_mask
\* The part of extract_and_resize_mask after the copy loop, on the bytes of
\* the cropped mask: threshold, optional dilation, nearest-neighbour resize
\* to the target size, optional erosion.
ExtractAndResizeMask(t, cropped_mask, target_width, target_height, config) ==
    LET thresholded == Thresholded(cropped_mask, config.mask_threshold)
        morphed == IF config.mask_dilation > 0
                   THEN dilate_mask(thresholded, config.mask_dilation)
                   ELSE thresholded
        resized == resize(morphed, target_width, target_height)
        resized_mask == IF config.mask_erosion > 0
                        THEN erode_mask(resized, config.mask_erosion)
                        ELSE resized
    IN  /\ pc[t] = "idle"
        /\ loc' = [loc EXCEPT ![t] =
                     [NoCall EXCEPT !.op = "extract_and_resize_mask",
                          !.cfg = [NoConfig EXCEPT
                                      !.mask_dilation = config.mask_dilation,
                                      !.mask_erosion = config.mask_erosion],
                          !.mask_threshold = config.mask_threshold,
                          !.target = [w |-> target_width, h |-> target_height],
                          !.pixels = cropped_mask,
                          !.thresholded = thresholded,
                          !.morphed = morphed,
                          !.resized = resized]]
        /\ Finish(t, [NoResult EXCEPT !.status = "ok", !.mask = resized_mask],
                  <<"threshold">>
                  \o (IF config.mask_dilation > 0 THEN <<"dilate">> ELSE <<>>)
                  \o <<"resize">>
                  \o (IF config.mask_erosion > 0 THEN <<"erode">> ELSE <<>>))
        /\ UNCHANGED <<reload_vars, ocr_vars, inpaint_image_cache, inpaint_mask_cache, lama,
                       comic_text_detector>>

\* ------------------------------------------------------------- accuracy.rs
\* AccuracyMetrics::calculate
Calculate(t, ground_truth, predicted) ==
    /\ pc[t] = "idle"
    /\ loc' = [loc EXCEPT ![t] =
                 [NoCall EXCEPT !.op = "calculate",
                                !.ground_truth = ground_truth,
                                !.predicted = predicted]]
    /\ Finish(t, [NoResult EXCEPT
                     !.status = "ok",
                     !.cer = character_error_rate(ground_truth, predicted),
                     !.wer = word_error_rate(ground_truth, predicted)],
              <<>>)
    /\ UNCHANGED <<reload_vars, ocr_vars, inpaint_image_cache, inpaint_mask_cache, lama,
                   comic_text_detector>>

\* ---------------------------------------------------------------- detection
Detection(t, decoded, image, confidence_threshold, nms_threshold) ==
    /\ pc[t] = "idle"
    /\ loc' = [loc EXCEPT ![t] =
                 [NoCall EXCEPT !.op = "detection", !.image = image,
                      !.confidence_threshold = confidence_threshold,
                      !.nms_threshold = nms_threshold]]
    /\ IF decoded THEN Goto(t, "detector_lock", <<>>)
       ELSE Finish(t, Failure("DecodeFailed"), <<>>)
    /\ UNCHANGED <<reload_vars, ocr_vars, inpaint_image_cache, inpaint_mask_cache, lama,
                   comic_text_detector>>

\* state.comic_text_detector.lock().await
AcquireDetector(t) ==
    /\ pc[t] = "detector_lock"
    /\ DetectorFree
    /\ comic_text_detector' = t
    /\ Goto(t, "detector_infer", <<"lock_detector">>)
    /\ UNCHANGED <<reload_vars, ocr_vars, inpaint_image_cache, inpaint_mask_cache, lama, loc>>

\* ComicTextDetector::inference from the tensors the session produced to
\* its return value.  out.run_ok: model.run and try_extract_tensor succeed;
\* out.seg_ok: the seg tensor converts to rank 4.  An out-of-bounds index
\* into blk unwinds the task: no value is returned.
Inference(out, image, confidence_threshold, nms_threshold, main) ==
    IF ~out.run_ok THEN Failure("InferenceFailed")
    ELSE LET d == Decode(out.blk, image, confidence_threshold, main)
         IN  IF d.panicked THEN Failure("Panicked")
             ELSE IF ~out.seg_ok THEN Failure("InferenceFailed")
             ELSE [NoResult EXCEPT
                      !.status = "ok",
                      !.bboxes = ClassifiedBboxes(
                          NonMaximumSuppression(d.boxes, nms_threshold))]

\* inference returns (or fails, or panics) and the guard is dropped; the
\* command encodes the mask and returns
DetectorReturn(t, out) ==
    /\ pc[t] = "detector_infer"
    /\ comic_text_detector' = 0
    /\ loc' = [loc EXCEPT ![t].out = out]
    /\ Finish(t, Inference(out, loc[t].image, loc[t].confidence_threshold,
                           loc[t].nms_threshold, FALSE),
              <<"inference">>)
    /\ UNCHANGED <<reload_vars, ocr_vars, inpaint_image_cache, inpaint_mask_cache, lama>>

\* one run of the standalone detector binary: open the image, run the
\* model, decode, suppress, write the pictures
Main(t, opened, image, confidence_threshold, nms_threshold, out) ==
    /\ pc[t] = "idle"
    /\ loc' = [loc EXCEPT ![t] =
                 [NoCall EXCEPT !.op = "main", !.image = image,
                      !.confidence_threshold = confidence_threshold,
                      !.nms_threshold = nms_threshold,
                      !.out = IF opened THEN out ELSE NoCall.out]]
    /\ IF opened
       THEN Finish(t, Inference(out, image, confidence_threshold,
                                nms_threshold, TRUE),
                   <<"inference">>)
       ELSE Finish(t, Failure("DecodeFailed"), <<>>)
    /\ UNCHANGED <<reload_vars, ocr_vars, inpaint_image_cache, inpaint_mask_cache, lama,
                   comic_text_detector>>

\* ------------------------------------------------------ run_gpu_stress_test
\* iterations = 0 leaves timings empty: the average divides by zero.
RunGpuStressTest(t, iterations) ==
    /\ pc[t] = "idle"
    /\ loc' = [loc EXCEPT ![t] =
                 [NoCall EXCEPT !.op = "run_gpu_stress_test", !.iter = iterations]]
    /\ IF iterations > 0 THEN Goto(t, "stress_lock", <<>>)
       ELSE Finish(t, Failure("Panic"), <<>>)
    /\ UNCHANGED <<reload_vars, ocr_vars, inpaint_image_cache, inpaint_mask_cache, lama,
                   comic_text_detector>>

\* state.lama.lock().await inside the loop
StressAcquire(t) ==
    /\ pc[t] = "stress_lock"
    /\ LamaFree
    /\ lama' = t
    /\ Goto(t, "stress_infer", <<>>)
    /\ UNCHANGED <<reload_vars, ocr_vars, inpaint_image_cache, inpaint_mask_cache,
                   comic_text_detector, loc>>

\* inference returns and the guard is dropped; the loop goes on or ends
StressReturn(t, ok) ==
    /\ pc[t] = "stress_infer"
    /\ lama' = 0
    /\ IF ~ok
       THEN /\ Finish(t, Failure("InferenceFailed"), <<>>)
            /\ loc' = [loc EXCEPT ![t].iter = 0]
       ELSE /\ loc' = [loc EXCEPT ![t].iter = loc[t].iter - 1]
            /\ IF loc[t].iter = 1
               THEN Finish(t, [NoResult EXCEPT !.status = "ok"], <<>>)
               ELSE Goto(t, "stress_lock", <<>>)
    /\ UNCHANGED <<reload_vars, ocr_vars, inpaint_image_cache, inpaint_mask_cache,
                   comic_text_detector>>

\* ---------------------------------------------------------------------- ocr
inpaint_vars ==
    <<inpaint_image_cache, inpaint_mask_cache, lama, comic_text_detector>>

\* faulty variant of Ocr: the read guard of active_ocr is bound to a
\* variable that lives to the end of the command
OcrHoldsActive(t, decoded) ==
    /\ pc[t] = "idle"
    /\ IF decoded
       THEN /\ loc' = [loc EXCEPT ![t] =
                         [NoCall EXCEPT !.op = "ocr",
                                        !.active_key = active_ocr,
                                        !.guards = {"active_ocr"}]]
            /\ Goto(t, "ocr_lookup", <<"read_active">>)
       ELSE /\ loc' = [loc EXCEPT ![t] = [NoCall EXCEPT !.op = "ocr"]]
            /\ Finish(t, Failure("DecodeFailed"), <<>>)
    /\ UNCHANGED <<reload_vars, inpaint_vars, ocr_vars>>

\* ocr: decode the image; let active_key = state.active_ocr.read().await
\* .clone(); the guard is a temporary of that statement
Ocr(t, decoded) ==
    /\ pc[t] = "idle"
    /\ IF decoded
       THEN /\ loc' = [loc EXCEPT ![t] =
                         [NoCall EXCEPT !.op = "ocr",
                                        !.active_key = active_ocr,
                                        !.guards = {"active_ocr"} \ {"active_ocr"}]]
            /\ Goto(t, "ocr_lookup", <<"read_active">>)
       ELSE /\ loc' = [loc EXCEPT ![t] = [NoCall EXCEPT !.op = "ocr"]]
            /\ Finish(t, Failure("DecodeFailed"), <<>>)
    /\ UNCHANGED <<reload_vars, inpaint_vars, ocr_vars>>

\* run_ocr_with_pipelines: { guard = ocr_pipelines.read().await;
\* guard.get(active_key).cloned() }, and the error when there is none
OcrLookup(t) ==
    /\ pc[t] = "ocr_lookup"
    /\ IF loc[t].active_key \in ocr_pipelines
       THEN /\ loc' = [loc EXCEPT ![t].engine = loc[t].active_key]
            /\ Goto(t, "ocr_detect", <<"read_registry", "execute">>)
       ELSE /\ Finish(t, Failure("PipelineNotFound"), <<"read_registry">>)
            /\ UNCHANGED loc
    /\ UNCHANGED <<reload_vars, inpaint_vars, ocr_vars>>

\* faulty variant of OcrFailed: the fallback is tried whatever the active
\* key is
OcrFailedAnyKey(t, events) ==
    IF /\ ~loc[t].fallback
       /\ MANGA_OCR_KEY \in ocr_pipelines
    THEN /\ loc' = [loc EXCEPT ![t].engine = MANGA_OCR_KEY,
                               ![t].fallback = TRUE,
                               ![t].regions = 0, ![t].iter = 0]
         /\ Goto(t, "ocr_detect", events \o <<"failed", "execute">>)
    ELSE /\ Finish(t, [Failure("OcrFailed") EXCEPT !.engine = loc[t].engine],
                   events \o <<"failed">>)
         /\ UNCHANGED loc

\* execute_ocr_pipeline returned Err(err): fall back to the manga-ocr
\* pipeline when the active key is another one and manga-ocr is registered
\* (a failure of the fallback itself is returned), else return Err(err).
\* The engine of a failure tells whose error it is.
OcrFailed(t, events) ==
    IF /\ loc[t].active_key # MANGA_OCR_KEY
       /\ ~loc[t].fallback
       /\ MANGA_OCR_KEY \in ocr_pipelines
    THEN /\ loc' = [loc EXCEPT ![t].engine = MANGA_OCR_KEY,
                               ![t].fallback = TRUE,
                               ![t].regions = 0, ![t].iter = 0]
         /\ Goto(t, "ocr_detect", events \o <<"failed", "execute">>)
    ELSE /\ Finish(t, [Failure("OcrFailed") EXCEPT !.engine = loc[t].engine],
                   events \o <<"failed">>)
         /\ UNCHANGED loc

\* pipeline.detect_text_regions(image): manga-ocr answers with one region
\* covering the image; paddle-ocr preprocesses and awaits det_session
OcrDetect(t, preprocessed) ==
    /\ pc[t] = "ocr_detect"
    /\ IF loc[t].engine = MANGA_OCR_KEY
       THEN /\ loc' = [loc EXCEPT ![t].regions = 1]
            /\ Goto(t, "ocr_recognize", <<>>)
       ELSE IF preprocessed
            THEN Goto(t, "det_lock", <<>>) /\ UNCHANGED loc
            ELSE OcrFailed(t, <<>>)
    /\ UNCHANGED <<reload_vars, inpaint_vars, ocr_vars>>

\* a session mutex: lock().await completes while no guard is alive
SessionFree(session) == ocr_sessions[session] = 0

\* self.det_session.lock().await
AcquireDet(t) ==
    /\ pc[t] = "det_lock"
    /\ SessionFree("det_session")
    /\ ocr_sessions' = [ocr_sessions EXCEPT !["det_session"] = t]
    /\ Goto(t, "det_infer", <<"lock_det_session">>)
    /\ UNCHANGED <<reload_vars, inpaint_vars, ocr_pipelines, active_ocr, loc>>

\* det_session.run returns, the output is post-processed into n regions and
\* the guard is dropped
DetReturn(t, ok, n) ==
    /\ pc[t] = "det_infer"
    /\ ocr_sessions' = [ocr_sessions EXCEPT !["det_session"] = 0]
    /\ IF ok
       THEN /\ loc' = [loc EXCEPT ![t].regions = n]
            /\ Goto(t, "ocr_recognize", <<"inference">>)
       ELSE OcrFailed(t, <<"inference">>)
    /\ UNCHANGED <<reload_vars, inpaint_vars, ocr_pipelines, active_ocr>>

\* pipeline.recognize_text(image, &regions): manga-ocr awaits its inner
\* mutex; paddle-ocr crops the next region and awaits rec_session, or
\* returns the texts when no region is left
OcrRecognize(t, cropped) ==
    /\ pc[t] = "ocr_recognize"
    /\ IF loc[t].engine = MANGA_OCR_KEY
       THEN Goto(t, "inner_lock", <<>>) /\ UNCHANGED loc
       ELSE IF loc[t].iter >= loc[t].regions
            THEN /\ Finish(t, [NoResult EXCEPT
                                  !.status = "ok", !.engine = loc[t].engine,
                                  !.region_count = loc[t].regions], <<>>)
                 /\ UNCHANGED loc
       ELSE IF cropped THEN Goto(t, "rec_lock", <<>>) /\ UNCHANGED loc
       ELSE OcrFailed(t, <<>>)
    /\ UNCHANGED <<reload_vars, inpaint_vars, ocr_vars>>

\* self.rec_session.lock().await
AcquireRec(t) ==
    /\ pc[t] = "rec_lock"
    /\ SessionFree("rec_session")
    /\ ocr_sessions' = [ocr_sessions EXCEPT !["rec_session"] = t]
    /\ Goto(t, "rec_infer", <<"lock_rec_session">>)
    /\ UNCHANGED <<reload_vars, inpaint_vars, ocr_pipelines, active_ocr, loc>>

\* rec_session.run returns and the guard is dropped at the end of the loop
\* body
RecReturn(t, ok) ==
    /\ pc[t] = "rec_infer"
    /\ ocr_sessions' = [ocr_sessions EXCEPT !["rec_session"] = 0]
    /\ IF ok
       THEN /\ loc' = [loc EXCEPT ![t].iter = loc[t].iter + 1]
            /\ Goto(t, "ocr_recognize", <<"inference">>)
       ELSE OcrFailed(t, <<"inference">>)
    /\ UNCHANGED <<reload_vars, inpaint_vars, ocr_pipelines, active_ocr>>

\* self.inner.lock().await
AcquireInner(t) ==
    /\ pc[t] = "inner_lock"
    /\ SessionFree("inner")
    /\ ocr_sessions' = [ocr_sessions EXCEPT !["inner"] = t]
    /\ Goto(t, "inner_infer", <<"lock_inner">>)
    /\ UNCHANGED <<reload_vars, inpaint_vars, ocr_pipelines, active_ocr, loc>>

\* guard.inference(image) returns and the guard is dropped
InnerReturn(t, ok) ==
    /\ pc[t] = "inner_infer"
    /\ ocr_sessions' = [ocr_sessions EXCEPT !["inner"] = 0]
    /\ IF ok
       THEN /\ Finish(t, [NoResult EXCEPT
                             !.status = "ok", !.engine = loc[t].engine,
                             !.region_count = loc[t].regions],
                      <<"inference">>)
            /\ UNCHANGED loc
       ELSE OcrFailed(t, <<"inference">>)
    /\ UNCHANGED <<reload_vars, inpaint_vars, ocr_pipelines, active_ocr>>

\* ----------------------------------------------------------- set_active_ocr
\* faulty variant of SetActiveOcr: the key is not looked up
SetActiveOcrUnchecked(t, model_key) ==
    /\ pc[t] = "idle"
    /\ loc' = [loc EXCEPT ![t] =
                 [NoCall EXCEPT !.op = "set_active_ocr",
                                !.model_key = model_key]]
    /\ Goto(t, "set_active_write", <<"read_registry">>)
    /\ UNCHANGED <<reload_vars, inpaint_vars, ocr_vars>>

\* let pipelines = ocr_pipelines.read().await; the key is looked up and the
\* guard is dropped, by the early return or by drop(pipelines)
SetActiveOcr(t, model_key) ==
    /\ pc[t] = "idle"
    /\ loc' = [loc EXCEPT ![t] =
                 [NoCall EXCEPT !.op = "set_active_ocr",
                                !.model_key = model_key,
                                !.guards = {"ocr_pipelines"} \ {"ocr_pipelines"}]]
    /\ IF model_key \in ocr_pipelines
       THEN Goto(t, "set_active_write", <<"read_registry">>)
       ELSE Finish(t, Failure("ModelNotFound"), <<"read_registry">>)
    /\ UNCHANGED <<reload_vars, inpaint_vars, ocr_vars>>

\* *state.active_ocr.write().await = model_key.clone();
SetActiveWrite(t) ==
    /\ pc[t] = "set_active_write"
    /\ RwWriteFree("active_ocr", t)
    /\ active_ocr' = loc[t].model_key
    /\ Finish(t, [NoResult EXCEPT !.status = "ok"], <<"write_active">>)
    /\ UNCHANGED <<reload_vars, inpaint_vars, ocr_pipelines, ocr_sessions, loc>>

\* the caller has taken the result; the task is free for the next command
Return(t) ==
    /\ pc[t] = "done"
    /\ pc' = [pc EXCEPT ![t] = "idle"]
    /\ loc' = [loc EXCEPT ![t] = NoCall]
    /\ log' = [log EXCEPT ![t] = <<>>]
    /\ result' = [result EXCEPT ![t] = NoResult]
    /\ UNCHANGED <<reload_vars, ocr_vars, inpaint_image_cache, inpaint_mask_cache, lama,
                   comic_text_detector>>

\* ------------------------------------------------------------------ inputs
Dim(w, h) == [id |-> 0, w |-> w, h |-> h]
BBox(xmin, ymin, xmax, ymax) ==
    [xmin |-> xmin, ymin |-> ymin, xmax |-> xmax, ymax |-> ymax]
Config(padding, dilation, erosion, debug) ==
    [padding |-> padding, mask_dilation |-> dilation,
     mask_erosion |-> erosion, debug_mode |-> debug]
Output(ok, w, h, slack) == [ok |-> ok, w |-> w, h |-> h, slack |-> slack]

\* A decoded page and its segmentation mask (a decoded PNG has no zero side).
\* an nms_threshold n / d
Threshold(n, d) == [n |-> n, d |-> d]
HalfThreshold == Threshold(1, 2)

\* what the detector session hands back
DetOutput(run_ok, blk, seg_ok) ==
    [run_ok |-> run_ok, blk |-> blk, seg_ok |-> seg_ok]

\* a failed run, one text box found, a box tensor of too few columns
SmallDetections ==
    {DetOutput(FALSE, Blk(3, 7, <<>>), TRUE),
     DetOutput(TRUE, Blk(3, 7, <<<<1, 1, 2, 2, 1, 0, 1>>>>), TRUE),
     DetOutput(TRUE, Blk(3, 6, <<<<1, 1, 2, 2, 1, 0, 1>>>>), TRUE)}

PageImage == Dim(MaxDim, MaxDim)
PageMask == Dim(MaxDim + 1, MaxDim + 1)

\* Inputs of the concurrent runs: a box inside the page, and for the legacy
\* path also a box left of the page and a mask without pixels; a
\* collaborator that fails or returns the crop at its own size.
InsideBBox == BBox(0, 0, Den, Den)
OutsideBBox == BBox(-3 * Den, 0, -2 * Den, Den)
SmallConfig == Config(1, 0, 1, FALSE)
SmallRegions == {<<PageMask, InsideBBox>>, <<PageMask, OutsideBBox>>,
                 <<Dim(0, MaxDim + 1), InsideBBox>>}
SmallOutputs == {Output(FALSE, 1, 1, 0), Output(TRUE, MaxDim, MaxDim, 0)}

\* Inputs of the geometry runs.  Family A varies the box on one axis at a
\* time over every pair of coordinates (inverted and empty boxes included),
\* every image size and every padding.  Family B maps every pixel-aligned box
\* of every non-empty image into every mask size, with every kernel radius.
Coords == -MaxCoord .. MaxCoord
Paddings == -1 .. MaxPad
Kernels == 0 .. 1

GeomInputsA ==
    {[image |-> Dim(w, h), mask |-> PageMask, bbox |-> b,
      cfg |-> Config(p, 0, 0, FALSE)] :
        w \in 0..MaxDim, h \in 0..MaxDim, p \in Paddings,
        b \in {BBox(lo, 0, hi, Den) : lo \in Coords, hi \in Coords}
              \cup {BBox(0, lo, Den, hi) : lo \in Coords, hi \in Coords}}

GeomInputsB ==
    {[image |-> Dim(w, h), mask |-> Dim(mw, mh),
      bbox |-> BBox(x * Den, y * Den, x2 * Den, y2 * Den),
      cfg |-> Config(p, d, e, FALSE)] :
        w \in 1..MaxDim, h \in 1..MaxDim,
        mw \in 0..(MaxDim + 1), mh \in 0..(MaxDim + 1),
        x \in 0..MaxDim, x2 \in 1..MaxDim, y \in 0..MaxDim, y2 \in 1..MaxDim,
        p \in 0..1, d \in Kernels, e \in Kernels}

GeomInputs == GeomInputsA \cup GeomInputsB

\* Inputs of the reconciliation runs: every pixel-aligned box of the page,
\* and every output size and buffer length of the collaborator.
ReconBBoxes ==
    {BBox(x * Den, y * Den, x2 * Den, y2 * Den) :
        x \in 0..MaxDim, x2 \in 0..MaxDim, y \in 0..MaxDim, y2 \in 0..MaxDim}
ReconConfigs == {Config(0, 0, 1, debug) : debug \in BOOLEAN}
Outputs ==
    {Output(ok, w, h, slack) :
        ok \in BOOLEAN, w \in 1..(MaxDim + 1), h \in 1..(MaxDim + 1),
        slack \in -MaxSlack .. MaxSlack}

\* ---------------------------------------------------------- specifications
\* the page as decoded by one prime call
Page(image, id) == [image EXCEPT !.id = id]

\* the steps of a command that has started
Continue(t) ==
    \/ PrimeMask(t)
    \/ ClearMask(t)
    \/ \E saved \in BOOLEAN : ReadMask(t, saved)
    \/ AcquireLama(t)
    \/ \E out \in SmallOutputs, saved \in BOOLEAN : InferenceReturn(t, out, saved)
    \/ AcquireDetector(t)
    \/ \E out \in SmallDetections : DetectorReturn(t, out)
    \/ StressAcquire(t)
    \/ \E ok \in BOOLEAN : StressReturn(t, ok)
    \/ Return(t)

\* Any number of commands running concurrently as independent tasks; every
\* prime call stores the same page.
Next ==
    \E t \in Tasks :
        \/ \E decoded \in BOOLEAN :
              CacheInpaintingData(t, Page(PageImage, 1), Page(PageMask, 1), decoded)
        \/ ClearInpaintingCache(t)
        \/ InpaintRegionCached(t, InsideBBox, SmallConfig)
        \/ \E in \in SmallRegions, ok \in BOOLEAN :
              InpaintRegion(t, PageImage, in[1], ok, in[2], SmallConfig, TRUE)
        \/ \E decoded \in BOOLEAN :
               Detection(t, decoded, PageImage, 1, HalfThreshold)
        \/ \E n \in 0..MaxIter : RunGpuStressTest(t, n)
        \/ Continue(t)

Spec == Init /\ [][Next]_vars

\* The commands of the inpainting cache running concurrently; every prime
\* call stores a page of its own.
CacheNext ==
    \E t \in Tasks :
        \/ \E decoded \in BOOLEAN :
              CacheInpaintingData(t, Page(PageImage, FreshId),
                                  Page(PageMask, FreshId), decoded)
        \/ ClearInpaintingCache(t)
        \/ InpaintRegionCached(t, InsideBBox, SmallConfig)
        \/ PrimeMask(t)
        \/ ClearMask(t)
        \/ \E saved \in BOOLEAN : ReadMask(t, saved)
        \/ AcquireLama(t)
        \/ \E out \in SmallOutputs, saved \in BOOLEAN : InferenceReturn(t, out, saved)
        \/ Return(t)

CacheSpec == Init /\ [][CacheNext]_vars

\* The commands issued one after the other: a command starts only when no
\* other command is running.  Every prime call stores a page of its own.
NoOther(t) == \A u \in Tasks \ {t} : pc[u] = "idle"

SeqNext ==
    \E t \in Tasks :
        \/ \E decoded \in BOOLEAN :
              NoOther(t) /\ CacheInpaintingData(t, Page(PageImage, FreshId),
                                                Page(PageMask, FreshId), decoded)
        \/ NoOther(t) /\ ClearInpaintingCache(t)
        \/ \E b \in {InsideBBox, OutsideBBox} :
              NoOther(t) /\ InpaintRegionCached(t, b, SmallConfig)
        \/ \E in \in SmallRegions, ok \in BOOLEAN :
              NoOther(t) /\ InpaintRegion(t, PageImage, in[1], ok, in[2],
                                          SmallConfig, TRUE)
        \/ \E decoded \in BOOLEAN :
               NoOther(t) /\ Detection(t, decoded, PageImage, 1, HalfThreshold)
        \/ \E n \in 0..MaxIter : NoOther(t) /\ RunGpuStressTest(t, n)
        \/ Continue(t)

SeqSpec == Init /\ [][SeqNext]_vars

\* the steps of a region call that has reached the pipeline
Pipeline(t, outputs) ==
    \/ AcquireLama(t)
    \/ \E out \in outputs, saved \in BOOLEAN : InferenceReturn(t, out, saved)
    \/ Return(t)

\* One inpaint_region call at a time, over the geometry inputs.
GeomNext ==
    \/ /\ pc[1] = "idle"
       /\ \E in \in GeomInputs, ok \in BOOLEAN :
             InpaintRegion(1, in.image, in.mask, ok, in.bbox, in.cfg, TRUE)
    \/ Pipeline(1, SmallOutputs)

GeomSpec == Init /\ [][GeomNext]_vars

\* One inpaint_region call at a time, over the outputs of the collaborator.
ReconNext ==
    \/ \E b \in ReconBBoxes, c \in ReconConfigs, ok \in BOOLEAN, saved \in BOOLEAN :
          InpaintRegion(1, PageImage, PageMask, ok, b, c, saved)
    \/ Pipeline(1, Outputs)

ReconSpec == Init /\ [][ReconNext]_vars

\* ------------------------------------------------------------ OCR inputs
MaxRegions == 1

\* the keys a caller may ask for
ModelKeys == {PADDLE_OCR_KEY, MANGA_OCR_KEY, "unknown"}

\* the registries the application may have been started with
Registries == {{PADDLE_OCR_KEY, MANGA_OCR_KEY}, {PADDLE_OCR_KEY}}

\* the steps of an ocr or set_active_ocr command after its first one; the
\* sessions fail or succeed at will
OcrContinue(t) ==
    \/ OcrLookup(t)
    \/ OcrDetect(t, TRUE)
    \/ AcquireDet(t)
    \/ \E ok \in BOOLEAN, n \in 0..MaxRegions : DetReturn(t, ok, n)
    \/ OcrRecognize(t, TRUE)
    \/ AcquireRec(t)
    \/ \E ok \in BOOLEAN : RecReturn(t, ok)
    \/ AcquireInner(t)
    \/ \E ok \in BOOLEAN : InnerReturn(t, ok)
    \/ SetActiveWrite(t)

\* the application started with one of the registries, the active key one
\* of its keys
LockInit ==
    /\ inpaint_image_cache = NoImage
    /\ inpaint_mask_cache = NoImage
    /\ lama = 0
    /\ comic_text_detector = 0
    /\ ocr_pipelines \in Registries
    /\ active_ocr \in ocr_pipelines
    /\ ocr_sessions = [s \in Sessions |-> 0]
    /\ pending_reload = 0
    /\ reloads = <<>>
    /\ pc = [t \in Tasks |-> "idle"]
    /\ loc = [t \in Tasks |-> NoCall]
    /\ log = [t \in Tasks |-> <<>>]
    /\ result = [t \in Tasks |-> NoResult]

\* The commands that take a lock of the cache, the registry or the active
\* key, and the commands that run an inference, as concurrent tasks.
LockNext ==
    \E t \in Tasks :
        \/ \E decoded \in BOOLEAN : Ocr(t, decoded)
        \/ \E k \in ModelKeys : SetActiveOcr(t, k)
        \/ CacheInpaintingData(t, Page(PageImage, 1), Page(PageMask, 1), TRUE)
        \/ ClearInpaintingCache(t)
        \/ InpaintRegionCached(t, InsideBBox, SmallConfig)
        \/ Detection(t, TRUE, PageImage, 1, HalfThreshold)
        \/ OcrContinue(t)
        \/ PrimeMask(t)
        \/ ClearMask(t)
        \/ ReadMask(t, TRUE)
        \/ AcquireLama(t)
        \/ \E out \in SmallOutputs : InferenceReturn(t, out, TRUE)
        \/ AcquireDetector(t)
        \/ \E out \in {d \in SmallDetections : d.run_ok /\ d.blk.cols = 7} :
              DetectorReturn(t, out)
        \/ Return(t)

LockSpec == LockInit /\ [][LockNext]_vars

\* ocr and set_active_ocr as concurrent tasks; every step of a pipeline
\* fails or succeeds at will.
OcrNext ==
    \E t \in Tasks :
        \/ \E decoded \in BOOLEAN : Ocr(t, decoded)
        \/ \E k \in ModelKeys : SetActiveOcr(t, k)
        \/ OcrLookup(t)
        \/ \E preprocessed \in BOOLEAN : OcrDetect(t, preprocessed)
        \/ AcquireDet(t)
        \/ \E ok \in BOOLEAN, n \in 0..MaxRegions : DetReturn(t, ok, n)
        \/ \E cropped \in BOOLEAN : OcrRecognize(t, cropped)
        \/ AcquireRec(t)
        \/ \E ok \in BOOLEAN : RecReturn(t, ok)
        \/ AcquireInner(t)
        \/ \E ok \in BOOLEAN : InnerReturn(t, ok)
        \/ SetActiveWrite(t)
        \/ Return(t)

OcrSpec == LockInit /\ [][OcrNext]_vars

\* ------------------------------------------------------- detector inputs
\* a page whose two scale ratios differ
DetImage == Dim(MaxDim, MaxDim + 1)

\* rows of every sign of width, zero or positive height, every confidence
\* and every order of the two class scores
RowsA ==
    {<<2, 2, w, h, c, s[1], s[2]>> :
        w \in {-2, 0, 2}, h \in {0, 2}, c \in 0..MaxConf,
        s \in {<<0, 1>>, <<1, 0>>, <<1, 1>>}}

\* 4 x 4 boxes shifted along x, of either class
RowsB ==
    {<<2 + dx, 2, 4, 4, c, 1 - k, k>> :
        dx \in 0..MaxShift, c \in 1..MaxConf, k \in 0..1}

\* box tensors of shape [1, N, 7]
TensorsA ==
    {Blk(3, 7, rows) : rows \in {<<>>} \cup {<<r>> : r \in RowsA}
                                  \cup {<<r, q>> : r \in RowsA,
                                           q \in {x \in RowsA : x[4] = 2}}}
TensorsB ==
    {Blk(3, 7, <<<<2, 2, 4, 4, c, 1 - k, k>>, r, q>>) :
        c \in 1..MaxConf, k \in 0..1, r \in RowsB, q \in RowsB}

\* box tensors of another rank or of fewer columns
TensorsC ==
    {Blk(rank, cols, rows) :
        rank \in 1..4, cols \in 4..7,
        rows \in {<<>>, <<<<2, 2, 2, 2, 0, 0, 1>>>>,
                  <<<<2, 2, 2, 2, MaxConf, 0, 1>>>>}}

Detections ==
    {DetOutput(TRUE, blk, TRUE) : blk \in TensorsA \cup TensorsB \cup TensorsC}
        \cup {DetOutput(run_ok, blk, seg_ok) :
                 run_ok \in BOOLEAN, seg_ok \in BOOLEAN,
                 blk \in {Blk(3, 7, <<>>), Blk(3, 7, <<<<2, 2, 2, 2, 1, 0, 1>>>>),
                          Blk(3, 6, <<<<2, 2, 2, 2, 1, 0, 1>>>>)}}

MainDetections ==
    {DetOutput(TRUE, blk, TRUE) :
        blk \in {b \in TensorsA : Len(b.rows) <= 1}
                 \cup {b \in TensorsB : b.rows[2] = b.rows[3]}
                 \cup TensorsC}

ConfidenceThresholds == 0..MaxConf
NmsThresholds == {Threshold(1, 4), Threshold(1, 2)}

\* One detection at a time, by the command or by the standalone binary,
\* over the tensors of the detector session.
DetectNext ==
    \/ \E decoded \in BOOLEAN, ct \in ConfidenceThresholds,
          nt \in NmsThresholds : Detection(1, decoded, DetImage, ct, nt)
    \/ AcquireDetector(1)
    \/ \E out \in Detections : DetectorReturn(1, out)
    \/ \E opened \in BOOLEAN, ct \in ConfidenceThresholds,
          nt \in NmsThresholds, out \in MainDetections :
          Main(1, opened, DetImage, ct, nt, out)
    \/ Return(1)

DetectSpec == Init /\ [][DetectNext]_vars

\* ------------------------------------------------------------- properties
\* the steps logged by the running command of task t
Events(t) == {log[t][i] : i \in 1..Len(log[t])}

RegionOps == {"inpaint_region", "inpaint_region_cached"}

\* a cached region call that found both slots filled
PastLookup(t) ==
    loc[t].op = "inpaint_region_cached" /\ loc[t].mask # NoImage

\* C1: under any interleaving of prime, clear and inpaint_region_cached, a
\* region call that got past the cache lookup works on one snapshot of the
\* pair: its image and its mask were stored by the same prime call.
C1_SnapshotFromOnePrime ==
    \A t \in Tasks : PastLookup(t) => loc[t].image.id = loc[t].mask.id

LamaCalls == {t \in Tasks : pc[t] \in {"lama_infer", "stress_infer"}}
DetectorCalls == {t \in Tasks : pc[t] = "detector_infer"}

\* C3: for each session (LaMa, detector) at most one inference call is in
\* flight at any time, and it is made by the task holding the session's
\* mutex; any other task is still waiting for the lock.
C3_OneInferenceInFlight ==
    /\ Cardinality(LamaCalls) <= 1
    /\ Cardinality(DetectorCalls) <= 1
    /\ \A t \in LamaCalls : lama = t
    /\ \A t \in DetectorCalls : comic_text_detector = t

\* a region call is inside LaMa while a stress-test task waits for the lock
C3_Witness ==
    \E t, u \in Tasks : pc[t] = "lama_infer" /\ pc[u] = "stress_lock"

CacheEmpty == inpaint_image_cache = NoImage /\ inpaint_mask_cache = NoImage
CachePair == <<inpaint_image_cache, inpaint_mask_cache>>

\* what sequential calls see of the cache
C4_State ==
    /\ \A t \in Tasks :
          /\ (loc[t].op = "cache_inpainting_data" /\ pc[t] = "done"
                  /\ result[t].status = "ok")
             => /\ CachePair = <<loc[t].image, loc[t].mask>>
                /\ loc[t].image.id = loc[t].mask.id
                /\ loc[t].image.id # 0
          /\ (loc[t].op = "clear_inpainting_cache" /\ pc[t] = "done")
             => CacheEmpty
          /\ (loc[t].op = "inpaint_region_cached" /\ pc[t] # "read_mask")
             => IF CacheEmpty
                THEN pc[t] = "done" /\ result[t].status = "CacheMiss"
                ELSE /\ result[t].status # "CacheMiss"
                     /\ CachePair = <<loc[t].image, loc[t].mask>>
                     /\ loc[t].image.id = loc[t].mask.id
    /\ (\A t \in Tasks : pc[t] = "idle")
       => \/ CacheEmpty
          \/ /\ inpaint_image_cache # NoImage
             /\ inpaint_image_cache.id = inpaint_mask_cache.id

\* the cache changes only in a step of a prime that decoded or of a clear
C4_Step ==
    CachePair' # CachePair
    => \E t \in Tasks :
          /\ pc'[t] # pc[t]
          /\ loc'[t].op \in {"cache_inpainting_data", "clear_inpainting_cache"}
          /\ result'[t].status # "DecodeFailed"

\* C4: for sequential calls the cache is a single slot: a region call made
\* while the cache is empty (before any prime, or after a clear) returns a
\* cache miss; a finished prime leaves exactly its pair in the cache and a
\* region call uses exactly the pair in the cache; the cache changes only
\* through a prime or a clear, never through a region call or a failed call.
C4_SingleSlot == []C4_State /\ [][C4_Step]_vars

\* a region call reached the pipeline with the pair of the second prime
C4_Witness ==
    \E t \in Tasks :
        /\ loc[t].op = "inpaint_region_cached" /\ pc[t] = "lama_lock"
        /\ loc[t].image.id = 2 /\ loc[t].mask.id = 2

EarlyErrors == {"InvalidPaddedBBox", "InvalidMaskCrop", "CacheMiss"}

\* C5: a region call that ends with a degenerate-rectangle error, a
\* zero-size mask-crop error or a cache miss has not acquired the LaMa lock
\* and has made no inference call.
C5_ErrorsBeforeLama ==
    \A t \in Tasks :
        (loc[t].op \in RegionOps /\ pc[t] = "done"
             /\ result[t].status \in EarlyErrors)
        => /\ "lock_lama" \notin Events(t)
           /\ "inference" \notin Events(t)
           /\ lama # t

\* a call returned the degenerate-rectangle error while another task was
\* inside LaMa, holding the lock
C5_Witness ==
    \E t, u \in Tasks :
        /\ pc[t] = "done" /\ result[t].status = "InvalidPaddedBBox"
        /\ pc[u] = "lama_infer" /\ lama = u

\* a region call whose pipeline has padded and clamped its rectangle
Padded(t) == loc[t].op \in RegionOps /\ "pad_clamp" \in Events(t)

\* a region call whose pipeline has mapped the padded rectangle to the mask
Mapped(t) == loc[t].op \in RegionOps /\ "map_mask" \in Events(t)

\* the part [lo, hi] /\ [0, dim] of an axis is not empty (lo, hi in 1/Den)
Visible(lo, hi, dim) == Max(lo, 0) <= Min(hi, dim * Den)

\* C6: for a positive padding the padded, clamped rectangle contains the
\* part of the input rectangle that lies inside the image [0,W] x [0,H].
C6_PaddedContainsVisible ==
    \A t \in Tasks :
        LET b == loc[t].bbox
            c == loc[t].crop
            im == loc[t].image
        IN  (/\ Padded(t) /\ loc[t].cfg.padding > 0
             /\ Visible(b.xmin, b.xmax, im.w) /\ Visible(b.ymin, b.ymax, im.h))
            => /\ c.x * Den <= Max(b.xmin, 0)
               /\ c.x2 * Den >= Min(b.xmax, im.w * Den)
               /\ c.y * Den <= Max(b.ymin, 0)
               /\ c.y2 * Den >= Min(b.ymax, im.h * Den)

\* a box sticking out of the image on both sides was padded and clamped to
\* a valid crop
C6_Witness ==
    \E t \in Tasks :
        /\ Padded(t) /\ loc[t].cfg.padding > 0
        /\ loc[t].bbox.xmin < 0 /\ loc[t].bbox.xmax > loc[t].image.w * Den
        /\ loc[t].crop.x2 > loc[t].crop.x /\ loc[t].crop.y2 > loc[t].crop.y

\* the clamped extent of an axis is empty: lo, hi in 1/Den, dim in pixels
AxisEmpty(lo, hi, padding, dim) ==
    LET a == Floor(lo - padding * Den, Den)
        b == Ceil(hi + padding * Den, Den)
    IN  dim = 0 \/ b <= 0 \/ (b <= a /\ b <= dim - 1)

AfterCheck == {"crop_image", "map_mask", "crop_mask", "resize_mask"}

\* C7 (as stated): the invalid-rectangle error occurs only for a degenerate
\* or zero-size input rectangle or a padding larger than the image (stated
\* here for the calls with a non-empty image and a non-negative padding).
C7_OnlyDegenerateOrOverPadded ==
    \A t \in Tasks :
        (/\ Padded(t) /\ result[t].status = "InvalidPaddedBBox"
         /\ loc[t].image.w >= 1 /\ loc[t].image.h >= 1
         /\ loc[t].cfg.padding >= 0)
        => \/ loc[t].bbox.xmax <= loc[t].bbox.xmin
           \/ loc[t].bbox.ymax <= loc[t].bbox.ymin
           \/ loc[t].cfg.padding > loc[t].image.w
           \/ loc[t].cfg.padding > loc[t].image.h

\* C7 (amended): the pipeline fails with the invalid-rectangle error exactly
\* when, after clamping, xmax <= xmin or ymax <= ymin; on an axis of extent
\* D this is the case exactly when D = 0, or ceil(max + p) <= 0 (the padded
\* box ends at or before the origin of the image), or ceil(max + p) <=
\* floor(min - p) and ceil(max + p) <= D - 1 (the padded box is empty and
\* ends inside the image); the check runs before the image is cropped and
\* before any mask crop or resize.
C7_InvalidExactlyWhenEmpty ==
    \A t \in Tasks :
        LET b == loc[t].bbox
            c == loc[t].crop
            p == loc[t].cfg.padding
        IN  Padded(t)
            => /\ (result[t].status = "InvalidPaddedBBox")
                   <=> (c.x2 <= c.x \/ c.y2 <= c.y)
               /\ (c.x2 <= c.x) <=> AxisEmpty(b.xmin, b.xmax, p, loc[t].image.w)
               /\ (c.y2 <= c.y) <=> AxisEmpty(b.ymin, b.ymax, p, loc[t].image.h)
               /\ (c.x2 <= c.x \/ c.y2 <= c.y) => Events(t) \cap AfterCheck = {}

\* the error for a box with positive area and a positive padding no larger
\* than the image: the box lies outside the image
C7_Witness ==
    \E t \in Tasks :
        /\ Padded(t) /\ result[t].status = "InvalidPaddedBBox"
        /\ loc[t].bbox.xmax > loc[t].bbox.xmin
        /\ loc[t].bbox.ymax > loc[t].bbox.ymin
        /\ loc[t].cfg.padding > 0
        /\ loc[t].cfg.padding <= loc[t].image.w
        /\ loc[t].cfg.padding <= loc[t].image.h

\* the mask rectangle the claim describes, for the padded rectangle c
FloorCeilClamped(c, image, mask) ==
    [xmin |-> Clamp(Floor(c.x * mask.w, image.w), 0, mask.w - 1),
     ymin |-> Clamp(Floor(c.y * mask.h, image.h), 0, mask.h - 1),
     xmax |-> Clamp(Ceil(c.x2 * mask.w, image.w), 0, mask.w),
     ymax |-> Clamp(Ceil(c.y2 * mask.h, image.h), 0, mask.h)]

\* C8 (as stated): for every pair of image and mask sizes the mapped
\* rectangle is the floor of the scaled minima clamped into [0, mask_dim-1]
\* and the ceiling of the scaled maxima clamped into [0, mask_dim].
C8_FloorCeilClampedForEveryMask ==
    \A t \in Tasks :
        Mapped(t)
        => loc[t].mask_bbox = FloorCeilClamped(loc[t].crop, loc[t].image,
                                               loc[t].mask)

\* C8 (amended): for every padded rectangle the pipeline maps and every mask
\* with at least one pixel on each axis, the mapped rectangle scales each
\* axis by mask_dim/src_dim, takes the floor of the minima, which lies in
\* [0, mask_dim-1], and the ceiling of the maxima, which lies in
\* [0, mask_dim].
C8_FloorCeilClamped ==
    \A t \in Tasks :
        (Mapped(t) /\ loc[t].mask.w >= 1 /\ loc[t].mask.h >= 1)
        => loc[t].mask_bbox = FloorCeilClamped(loc[t].crop, loc[t].image,
                                               loc[t].mask)

\* a mapping in which a maximum and a minimum both fall between mask pixels
C8_Witness ==
    \E t \in Tasks :
        /\ Mapped(t) /\ loc[t].mask.w >= 1 /\ loc[t].mask.h >= 1
        /\ (loc[t].crop.x2 * loc[t].mask.w) % loc[t].image.w # 0
        /\ (loc[t].crop.y * loc[t].mask.h) % loc[t].image.h # 0

\* n1/d1 <= n2/d2 for positive denominators
RatLeq(n1, d1, n2, d2) == n1 * d2 <= n2 * d1

\* C9: mapping the padded rectangle to mask space and back by the inverse
\* scale src_dim/mask_dim gives a rectangle that covers the padded rectangle.
C9_RoundTripCovers ==
    \A t \in Tasks :
        LET c == loc[t].crop
            m == loc[t].mask_bbox
            im == loc[t].image
            mk == loc[t].mask
        IN  (Mapped(t) /\ mk.w >= 1 /\ mk.h >= 1)
            => /\ RatLeq(m.xmin * im.w, mk.w, c.x, 1)
               /\ RatLeq(c.x2, 1, m.xmax * im.w, mk.w)
               /\ RatLeq(m.ymin * im.h, mk.h, c.y, 1)
               /\ RatLeq(c.y2, 1, m.ymax * im.h, mk.h)

\* a round trip that is strictly larger than the rectangle: it starts
\* before it on the x axis and ends after it on the y axis
C9_Witness ==
    \E t \in Tasks :
        /\ Mapped(t) /\ loc[t].mask.w >= 1 /\ loc[t].mask.h >= 1
        /\ ~RatLeq(loc[t].crop.x, 1,
                   loc[t].mask_bbox.xmin * loc[t].image.w, loc[t].mask.w)
        /\ ~RatLeq(loc[t].mask_bbox.ymax * loc[t].image.h, loc[t].mask.h,
                   loc[t].crop.y2, 1)

\* C10: when a region call reaches the collaborator, the image crop and the
\* mask crop both have exactly crop_width x crop_height pixels.
C10_CropsHaveCropSize ==
    \A t \in Tasks :
        LET crop_size == [w |-> loc[t].crop.x2 - loc[t].crop.x,
                          h |-> loc[t].crop.y2 - loc[t].crop.y]
        IN  (loc[t].op \in RegionOps /\ pc[t] \in {"lama_lock", "lama_infer"})
            => /\ loc[t].cropped_image = crop_size
               /\ loc[t].cropped_mask = crop_size
               /\ crop_size.w >= 1 /\ crop_size.h >= 1

\* the collaborator is called with a mask crop that was dilated, eroded and
\* resized from another size
C10_Witness ==
    \E t \in Tasks :
        /\ pc[t] = "lama_infer"
        /\ loc[t].cfg.mask_dilation > 0 /\ loc[t].cfg.mask_erosion > 0
        /\ MaskCropDims(loc[t].mask_bbox) # loc[t].cropped_mask

\* C11 (as stated): in debug mode a failure to write the debug artifacts is
\* only logged, so no region call ends with that failure as its result.
C11_DebugFailureOnlyLogged ==
    \A t \in Tasks :
        loc[t].op \in RegionOps => result[t].status # "DebugSaveFailed"

\* the number of times the running command of task t has logged event e
Count(t, e) == Cardinality({i \in 1..Len(log[t]) : log[t][i] = e})

\* C12 (state part): a region call has invoked the collaborator at most
\* once; when the invocation failed the call has returned that failure and
\* has released the session
C12_State ==
    \A t \in Tasks :
        loc[t].op \in RegionOps
        => /\ Count(t, "inference") <= 1
           /\ result[t].status = "InferenceFailed"
              => (pc[t] = "done" /\ Count(t, "inference") = 1 /\ lama # t)

\* C12 (step part): the return of the collaborator, failed or not, frees
\* the LaMa session and leaves the cache as it is
C12_Step ==
    \A t \in Tasks :
        (pc[t] = "lama_infer" /\ pc'[t] # "lama_infer")
        => (lama' = 0 /\ CachePair' = CachePair /\ pc'[t] = "done")

\* C12: a region call invokes the collaborator at most once; a failed
\* invocation is returned to the caller without a second invocation, and
\* the cache and the session stay usable for later calls.
C12_NoRetry == []C12_State /\ [][C12_Step]_vars

\* after a failed invocation another call is inside the collaborator
C12_Witness ==
    \E t, u \in Tasks :
        /\ pc[t] = "done" /\ result[t].status = "InferenceFailed"
        /\ loc[t].op \in RegionOps
        /\ pc[u] = "lama_infer" /\ loc[u].op \in RegionOps

\* --------------------------------------------------------------- detection
\* task t has finished a detection (command or standalone binary)
Detected(t) == loc[t].op \in {"detection", "main"} /\ pc[t] = "done"
DetectedOk(t) == Detected(t) /\ result[t].status = "ok"

\* the rows of the tensor task t decoded
RawRows(t) == loc[t].out.blk.rows
WellFormed(t) == loc[t].out.blk.rank = 3 /\ loc[t].out.blk.cols = 7

\* the row passes the confidence threshold of the call of task t
Passes(t, i) == RawRows(t)[i][5] >= loc[t].confidence_threshold

\* the boxes task t emitted for one class, without the class tag
RECURSIVE Untagged(_)
Untagged(list) ==
    IF list = <<>> THEN <<>>
    ELSE <<[xmin |-> Head(list).xmin, ymin |-> Head(list).ymin,
            xmax |-> Head(list).xmax, ymax |-> Head(list).ymax,
            confidence |-> Head(list).confidence]>> \o Untagged(Tail(list))

Emitted(t, class) ==
    Untagged(SelectSeq(result[t].bboxes, LAMBDA b : b.class = class))

\* C13 (as stated): every emitted box has xmax > xmin and ymax > ymin,
\* whatever the raw rows are.
C13_BoxesHavePositiveSize ==
    \A t \in Tasks :
        DetectedOk(t)
        => \A i \in 1..Len(result[t].bboxes) :
              /\ result[t].bboxes[i].xmax > result[t].bboxes[i].xmin
              /\ result[t].bboxes[i].ymax > result[t].bboxes[i].ymin

\* the detection of task t run again on the tensor with rows in place of
\* its rows
Rerun(t, rows) ==
    LET out == [loc[t].out EXCEPT !.blk.rows = rows]
    IN  Inference(out, loc[t].image, loc[t].confidence_threshold,
                  loc[t].nms_threshold, loc[t].op = "main")

\* the class the raw scores of a row call for
ScoreClass(row) == IF row[7] > row[6] THEN 1 ELSE 0

\* C14: suppression is independent per class: the boxes emitted for a class
\* are the boxes the same detection emits when the rows of the other class
\* are taken out of the tensor.
C14_ClassesIndependent ==
    \A t \in Tasks :
        (DetectedOk(t) /\ WellFormed(t))
        => \A class \in 0..1 :
              SelectSeq(result[t].bboxes, LAMBDA b : b.class = class)
                = Rerun(t, SelectSeq(RawRows(t),
                                     LAMBDA r : ScoreClass(r) = class)).bboxes

\* boxes of the two classes that overlap above the threshold are both
\* emitted
C14_Witness ==
    \E t \in Tasks :
        /\ DetectedOk(t) /\ WellFormed(t)
        /\ \E i \in 1..Len(Emitted(t, 0)), j \in 1..Len(Emitted(t, 1)) :
              /\ IoUAbove(Emitted(t, 0)[i], Emitted(t, 1)[j],
                          loc[t].nms_threshold)
              /\ Emitted(t, 0)[i].confidence # Emitted(t, 1)[j].confidence

\* the candidates of a class, in discovery order
Candidates(t, class) ==
    Decode(loc[t].out.blk, loc[t].image, loc[t].confidence_threshold,
           loc[t].op = "main").boxes[class + 1]

MaxConfidence(list) ==
    CHOOSE c \in {list[i].confidence : i \in 1..Len(list)} :
        \A i \in 1..Len(list) : list[i].confidence <= c

C15_Class(cand, e, thr) ==
    /\ \A i, j \in 1..Len(e) : i < j => ~IoUAbove(e[i], e[j], thr)
    /\ cand # <<>>
       => (e # <<>> /\ e[1] = cand[IndexOf(cand, e[1])]
           /\ e[1].confidence = MaxConfidence(cand)
           /\ \A k \in 1..(IndexOf(cand, e[1]) - 1) :
                 cand[k].confidence < e[1].confidence)
    /\ \A k \in 1..Len(cand) :
          \/ IndexOf(e, cand[k]) # 0
          \/ \E i \in 1..Len(e) : /\ e[i].confidence >= cand[k].confidence
                                  /\ IoUAbove(e[i], cand[k], thr)
    /\ \A i \in 1..Len(e) : IndexOf(cand, e[i]) # 0
    /\ \A i, j \in 1..Len(e) :
          i < j => /\ e[i].confidence >= e[j].confidence
                   /\ e[i].confidence = e[j].confidence
                      => IndexOf(cand, e[i]) <= IndexOf(cand, e[j])

\* C15: within each class no two emitted boxes overlap above the threshold;
\* the first candidate of highest confidence is emitted; every candidate
\* that is not emitted overlaps, above the threshold, an emitted box of
\* equal or higher confidence; emitted boxes are candidates, in descending
\* confidence and, at equal confidence, in discovery order.
C15_GreedySuppression ==
    \A t \in Tasks :
        (DetectedOk(t) /\ WellFormed(t))
        => \A class \in 0..1 :
              C15_Class(Candidates(t, class), Emitted(t, class),
                        loc[t].nms_threshold)

\* a class of three candidates: one removed, two emitted, and two
\* overlapping candidates of equal confidence among them
C15_Witness ==
    \E t \in Tasks, class \in 0..1 :
        /\ DetectedOk(t) /\ WellFormed(t)
        /\ Len(Candidates(t, class)) = 3
        /\ Len(Emitted(t, class)) = 2
        /\ \E i, j \in 1..3 :
              /\ i < j
              /\ Candidates(t, class)[i].confidence
                   = Candidates(t, class)[j].confidence
              /\ Candidates(t, class)[i] # Candidates(t, class)[j]
              /\ IoUAbove(Candidates(t, class)[i], Candidates(t, class)[j],
                          loc[t].nms_threshold)

\* C16: suppression is idempotent: run on the boxes a detection emitted, it
\* returns them unchanged.
C16_Idempotent ==
    \A t \in Tasks :
        DetectedOk(t)
        => NonMaximumSuppression(<<Emitted(t, 0), Emitted(t, 1)>>,
                                 loc[t].nms_threshold)
             = <<Emitted(t, 0), Emitted(t, 1)>>

\* a detection that removed a candidate and emitted two boxes of a class
C16_Witness ==
    \E t \in Tasks, class \in 0..1 :
        /\ DetectedOk(t) /\ WellFormed(t)
        /\ Len(Candidates(t, class)) > Len(Emitted(t, class))
        /\ Len(Emitted(t, class)) = 2

\* C17: in the command and in the standalone binary alike, an emitted box
\* has class 1 only if some passing row of its geometry has score_class1 >
\* score_class0, class 0 only if some such row has not; and every passing
\* row is represented by an emitted box of the class its scores call for.
C17_ClassOneIffScoreHigher ==
    \A t \in Tasks :
        (DetectedOk(t) /\ WellFormed(t))
        => /\ \A k \in 1..Len(result[t].bboxes) :
                 \E i \in 1..Len(RawRows(t)) :
                    /\ Passes(t, i)
                    /\ Untagged(<<result[t].bboxes[k]>>)[1]
                         = DecodeBox(loc[t].out.blk, i, loc[t].image)
                    /\ result[t].bboxes[k].class = 1
                         <=> RawRows(t)[i][7] > RawRows(t)[i][6]
           /\ \A i \in 1..Len(RawRows(t)) :
                 Passes(t, i)
                 => \E k \in 1..Len(result[t].bboxes) :
                       /\ result[t].bboxes[k].class = 1
                            <=> RawRows(t)[i][7] > RawRows(t)[i][6]
                       /\ result[t].bboxes[k].confidence >= RawRows(t)[i][5]

\* the command has emitted a class-0 box for a row of equal scores and a
\* class-1 box for a row of higher class-1 score
C17_Witness ==
    \E t \in Tasks :
        /\ DetectedOk(t) /\ WellFormed(t) /\ loc[t].op = "detection"
        /\ Len(RawRows(t)) = 2 /\ Len(result[t].bboxes) = 2
        /\ RawRows(t)[1][6] = RawRows(t)[1][7]
        /\ RawRows(t)[2][6] < RawRows(t)[2][7]
        /\ result[t].bboxes[1].class = 0
        /\ result[t].bboxes[2].class = 1

\* C18: a row is discarded exactly when its confidence is below the
\* threshold: no emitted box has a confidence below it, the rows with the
\* highest confidence among those at or above it are emitted, and when no
\* row passes the detection succeeds with an empty list of boxes.
C18_DiscardedIffBelowThreshold ==
    \A t \in Tasks :
        (Detected(t) /\ WellFormed(t) /\ loc[t].out.run_ok
                     /\ loc[t].out.seg_ok)
        => /\ result[t].status = "ok"
           /\ \A k \in 1..Len(result[t].bboxes) :
                 result[t].bboxes[k].confidence
                    >= loc[t].confidence_threshold
           /\ \A i \in 1..Len(RawRows(t)) :
                 Passes(t, i)
                 => \E k \in 1..Len(result[t].bboxes) :
                       result[t].bboxes[k].confidence >= RawRows(t)[i][5]
           /\ (\A i \in 1..Len(RawRows(t)) : ~Passes(t, i))
              => result[t].bboxes = <<>>

\* a row at the threshold is emitted while a row below it is discarded
C18_Witness ==
    \E t \in Tasks :
        /\ DetectedOk(t) /\ WellFormed(t)
        /\ Len(RawRows(t)) = 2 /\ Len(result[t].bboxes) = 1
        /\ RawRows(t)[1][5] = loc[t].confidence_threshold
        /\ RawRows(t)[2][5] < loc[t].confidence_threshold

\* C19 (as stated): a box tensor of fewer than 7 columns or of a rank other
\* than 3 ends the detection command with an error value.
C19_MalformedIsDecodeError ==
    \A t \in Tasks :
        (Detected(t) /\ loc[t].op = "detection" /\ loc[t].out.run_ok
                     /\ ~WellFormed(t))
        => result[t].status = "InferenceFailed"

\* ------------------------------------------------------------------- locks
\* the positions at which a command waits for an inference session or runs
\* an inference on it
InferencePositions ==
    {"lama_lock", "lama_infer", "detector_lock", "detector_infer",
     "det_lock", "det_infer", "rec_lock", "rec_infer",
     "inner_lock", "inner_infer"}

RwLocks ==
    {"inpaint_image_cache", "inpaint_mask_cache", "ocr_pipelines",
     "active_ocr"}

\* C20 (state part): a task that waits for or runs an inference holds no
\* guard of the cache slots, the registry or the active key, and every
\* write of another task to one of them can be granted
C20_State ==
    \A t \in Tasks :
        pc[t] \in InferencePositions
        => /\ loc[t].guards = {}
           /\ \A u \in Tasks \ {t}, name \in RwLocks : RwWriteFree(name, u)

\* C20 (pending writes): a prime, a clear or a set_active_ocr that has
\* reached its write completes it
C20_WritesEnabled ==
    \A u \in Tasks :
        /\ pc[u] = "prime_mask" => ENABLED PrimeMask(u)
        /\ pc[u] = "clear_mask" => ENABLED ClearMask(u)
        /\ pc[u] = "set_active_write" => ENABLED SetActiveWrite(u)

\* C20: while a task waits for or runs an inference it holds no lock on the
\* inpainting cache, the OCR registry or the active-engine setting, so the
\* writes of prime, clear and set_active_ocr by other tasks are never
\* blocked by it.
C20_NoLockAcrossInference == C20_State /\ C20_WritesEnabled

\* a task runs an OCR inference on the engine it read as active, and
\* another task has switched the active engine meanwhile
C20_Witness ==
    \E t, u \in Tasks :
        /\ pc[t] \in {"det_infer", "rec_infer", "inner_infer"}
        /\ loc[t].op = "ocr"
        /\ pc[u] = "done" /\ loc[u].op = "set_active_ocr"
        /\ result[u].status = "ok"
        /\ active_ocr = loc[u].model_key
        /\ active_ocr # loc[t].active_key

\* a prime or a clear has started and not yet returned
InProgress(t) ==
    /\ loc[t].op \in {"cache_inpainting_data", "clear_inpainting_cache"}
    /\ pc[t] \notin {"idle", "done"}

\* C25 (as stated): whenever no prime or clear is in progress the two slots
\* are both empty or both filled by one prime call.
C25_NeverHalfPrimed ==
    (\A t \in Tasks : ~InProgress(t))
    => \/ CacheEmpty
       \/ /\ inpaint_image_cache # NoImage
          /\ inpaint_mask_cache # NoImage
          /\ inpaint_image_cache.id = inpaint_mask_cache.id

C28_State == active_ocr \in ocr_pipelines

\* C28 (step part): the registry never changes; a set_active_ocr call with
\* an unregistered key returns an error and leaves the active key as it is,
\* one with a registered key makes it the active key; nothing else changes
\* the active key
C28_Step ==
    /\ ocr_pipelines' = ocr_pipelines
    /\ \A t \in Tasks :
          (loc'[t].op = "set_active_ocr" /\ pc'[t] = "done" /\ pc[t] # "done")
          => IF loc'[t].model_key \in ocr_pipelines
             THEN /\ result'[t].status = "ok"
                  /\ active_ocr' = loc'[t].model_key
             ELSE /\ result'[t].status = "ModelNotFound"
                  /\ active_ocr' = active_ocr
    /\ active_ocr' # active_ocr
       => \E t \in Tasks : /\ loc[t].op = "set_active_ocr"
                           /\ pc[t] = "set_active_write" /\ pc'[t] = "done"

\* C28: when the active key starts as a registered key and no pipeline is
\* removed, the active key names a registered pipeline after any run of
\* set_active_ocr calls: an unregistered key is refused and changes
\* nothing, a registered key becomes the active key.
C28_ActiveKeyRegistered == []C28_State /\ [][C28_Step]_vars

\* one call was refused, another has switched the active key
C28_Witness ==
    \E t, u \in Tasks :
        /\ loc[t].op = "set_active_ocr" /\ pc[t] = "done"
        /\ result[t].status = "ModelNotFound"
        /\ loc[t].model_key \notin ocr_pipelines
        /\ loc[u].op = "set_active_ocr" /\ pc[u] = "done"
        /\ result[u].status = "ok"
        /\ active_ocr = loc[u].model_key
        /\ active_ocr = PADDLE_OCR_KEY
        /\ MANGA_OCR_KEY \in ocr_pipelines

\* ------------------------------------------------------- region geometry
\* C29: every successful region call returns width >= 1, height >= 1,
\* x + width <= image_width, y + height <= image_height and
\* padded_bbox = [x, y, x + width, y + height].
C29_RegionInsideImage ==
    \A t \in Tasks :
        (loc[t].op \in RegionOps /\ result[t].status = "ok")
        => LET r == result[t]
           IN  /\ r.width >= 1 /\ r.height >= 1
               /\ r.x >= 0 /\ r.y >= 0
               /\ r.x + r.width <= loc[t].image.w
               /\ r.y + r.height <= loc[t].image.h
               /\ r.padded_bbox = [xmin |-> r.x, ymin |-> r.y,
                                   xmax |-> r.x + r.width,
                                   ymax |-> r.y + r.height]

\* a successful call whose region was cut at the right and bottom edges of
\* the image and does not start at the origin
C29_Witness ==
    \E t \in Tasks :
        /\ loc[t].op \in RegionOps /\ result[t].status = "ok"
        /\ result[t].x > 0
        /\ result[t].x + result[t].width = loc[t].image.w
        /\ result[t].y + result[t].height = loc[t].image.h
        /\ loc[t].bbox.xmax + loc[t].cfg.padding * Den > loc[t].image.w * Den

\* the coordinates mask_min + i the copy loop computes on one axis, before
\* the per-pixel .min(mask_dim - 1)
Sampled(mask_min, mask_crop_len) ==
    {mask_min + i : i \in 0..(mask_crop_len - 1)}

\* C30: when the padded rectangle has passed the degenerate check and the
\* full mask has at least one pixel on each axis, the mask crop is at least
\* 1 x 1 (the zero-size mask-crop error does not occur) and every sampled
\* coordinate lies in [0, mask_dim - 1] before the per-pixel clamp.
C30_MaskCropInsideMask ==
    \A t \in Tasks :
        LET m == loc[t].mask_bbox
            d == MaskCropDims(m)
        IN  (Mapped(t) /\ loc[t].mask.w >= 1 /\ loc[t].mask.h >= 1)
            => /\ d.w >= 1 /\ d.h >= 1
               /\ result[t].status # "InvalidMaskCrop"
               /\ Sampled(m.xmin, d.w) \subseteq 0..(loc[t].mask.w - 1)
               /\ Sampled(m.ymin, d.h) \subseteq 0..(loc[t].mask.h - 1)

\* a rectangle ending at the edge of the image was mapped to a mask of
\* another size: the last sampled column is the last column of the mask
C30_Witness ==
    \E t \in Tasks :
        /\ Mapped(t) /\ loc[t].mask.w >= 2 /\ loc[t].mask.h >= 1
        /\ loc[t].mask.w # loc[t].image.w
        /\ loc[t].crop.x2 = loc[t].image.w /\ loc[t].crop.x > 0
        /\ loc[t].mask_bbox.xmin > 0
        /\ (loc[t].mask.w - 1)
              \in Sampled(loc[t].mask_bbox.xmin,
                          MaskCropDims(loc[t].mask_bbox).w)

\* ------------------------------------------------------------ mask bytes
MaskW == 3
MaskH == 2
MaxKernel == 1
\* InpaintConfig::default().mask_threshold
MaskThreshold == 30

\* byte values around the threshold
MaskBytes == {0, MaskThreshold - 1, MaskThreshold, 255}

\* a w x h mask of one background byte with the bytes of odd painted on it
Painted(w, h, background, odd) ==
    [w |-> w, h |-> h,
     px |-> [y \in 1..h |->
               [x \in 1..w |->
                   IF <<x - 1, y - 1>> \in DOMAIN odd
                   THEN odd[<<x - 1, y - 1>>] ELSE background]]]

\* the masks of the runs: a background byte, alone or with one other byte
CroppedMasks ==
    UNION {UNION {{Painted(w, h, b, odd) : odd \in [P -> MaskBytes]} :
                    P \in {{}} \cup {{q} : q \in (0..(w - 1)) \X (0..(h - 1))}} :
             w \in 1..MaskW, h \in 1..MaskH, b \in {0, MaskThreshold, 255}}

MaskConfigs ==
    {[mask_threshold |-> MaskThreshold, mask_dilation |-> d,
      mask_erosion |-> e] : d \in Kernels, e \in 0..MaxKernel}

\* the crop sizes a mask crop is resized to: its own, a larger, a smaller
Targets(m) == {[w |-> m.w, h |-> m.h], [w |-> m.w + 1, h |-> m.h + 1],
               [w |-> Max(m.w - 1, 1), h |-> m.h]}

\* One mask extraction at a time, over the masks and configurations.
MaskNext ==
    \/ \E m \in CroppedMasks, config \in MaskConfigs :
          \E target \in Targets(m) :
             ExtractAndResizeMask(1, m, target.w, target.h, config)
    \/ Return(1)

MaskSpec == Init /\ [][MaskNext]_vars

\* a mask extraction that has returned
Extracted(t) == loc[t].op = "extract_and_resize_mask" /\ pc[t] = "done"

\* the bytes of an image
BytesOf(image) == {GetPixel(image, q[1], q[2]) : q \in Positions(image)}

\* event a of task t comes before its event b when both happened
Before(t, a, b) ==
    \A i, j \in 1..Len(log[t]) : (log[t][i] = a /\ log[t][j] = b) => i < j

\* C22: the mask extraction thresholds, then dilates when mask_dilation >
\* 0, then resizes by nearest neighbour to the target size, then erodes
\* when mask_erosion > 0; the threshold zeroes exactly the bytes below
\* mask_threshold and leaves the others as they are; with mask_dilation = 0
\* and mask_erosion = 0 every returned byte is 0 or a byte >= mask_threshold
\* of the cropped area.
C22_ThresholdDilateResizeErode ==
    \A t \in Tasks :
        Extracted(t)
        => LET c == loc[t].pixels
               th == loc[t].thresholded
               d == loc[t].cfg.mask_dilation
               e == loc[t].cfg.mask_erosion
               out == result[t].mask
           IN  /\ Before(t, "threshold", "dilate")
               /\ Before(t, "threshold", "resize")
               /\ Before(t, "dilate", "resize")
               /\ Before(t, "resize", "erode")
               /\ {"threshold", "resize"} \subseteq Events(t)
               /\ ("dilate" \in Events(t)) <=> d > 0
               /\ ("erode" \in Events(t)) <=> e > 0
               /\ th.w = c.w /\ th.h = c.h
               /\ \A q \in Positions(c) :
                     GetPixel(th, q[1], q[2])
                        = IF GetPixel(c, q[1], q[2]) < loc[t].mask_threshold
                          THEN 0 ELSE GetPixel(c, q[1], q[2])
               /\ loc[t].morphed = IF d > 0 THEN dilate_mask(th, d) ELSE th
               /\ loc[t].resized = resize(loc[t].morphed, loc[t].target.w,
                                          loc[t].target.h)
               /\ out = IF e > 0 THEN erode_mask(loc[t].resized, e)
                        ELSE loc[t].resized
               /\ out.w = loc[t].target.w /\ out.h = loc[t].target.h
               /\ (d = 0 /\ e = 0)
                  => \A v \in BytesOf(out) :
                        \/ v = 0
                        \/ v >= loc[t].mask_threshold /\ v \in BytesOf(c)

\* without dilation and erosion a mask with a byte below the threshold and
\* a byte equal to it was resized to another size: the first byte is gone,
\* the second is returned
C22_Witness ==
    \E t \in Tasks :
        /\ Extracted(t)
        /\ loc[t].cfg.mask_dilation = 0 /\ loc[t].cfg.mask_erosion = 0
        /\ loc[t].target # [w |-> loc[t].pixels.w, h |-> loc[t].pixels.h]
        /\ (loc[t].mask_threshold - 1) \in BytesOf(loc[t].pixels)
        /\ loc[t].mask_threshold \in BytesOf(loc[t].pixels)
        /\ loc[t].mask_threshold \in BytesOf(result[t].mask)
        /\ (loc[t].mask_threshold - 1) \notin BytesOf(result[t].mask)

\* C23 (as stated): for every thresholded mask, whose non-zero bytes are
\* any values from mask_threshold to 255, and every radius k > 0, a pixel
\* of the eroded mask is non-zero exactly when every pixel of the image
\* within L-infinity distance k of it is non-zero in the mask that was
\* eroded (so the inside of a hole wider than 2k+1 is never removed).
C23_ErosionExact ==
    \A t \in Tasks :
        (Extracted(t) /\ loc[t].cfg.mask_erosion > 0)
        => LET in == loc[t].resized
               out == result[t].mask
           IN  \A q \in Positions(in) :
                  (GetPixel(out, q[1], q[2]) # 0)
                  <=> \A r \in Positions(in) :
                         LInf(q, r) <= loc[t].cfg.mask_erosion
                         => GetPixel(in, r[1], r[2]) # 0

\* --------------------------------------------------------- error rates
MaxLen == 3

\* the texts of the runs
Texts == UNION {[1..n -> {LETTER, SPACE, MARK}] : n \in 0..MaxLen}

\* One AccuracyMetrics::calculate at a time, over the texts.
AccuracyNext ==
    \/ \E ground_truth \in Texts, predicted \in Texts :
          Calculate(1, ground_truth, predicted)
    \/ Return(1)

AccuracySpec == Init /\ [][AccuracyNext]_vars

\* the elements of a sequence
Elements(s) == {s[i] : i \in 1..Len(s)}

\* the sequences one insertion, deletion or substitution away from s, with
\* elements of alphabet and no longer than maxlen
OneEdit(s, alphabet, maxlen) ==
    {SubSeq(s, 1, i - 1) \o SubSeq(s, i + 1, Len(s)) : i \in 1..Len(s)}
    \cup {[s EXCEPT ![i[1]] = i[2]] : i \in (1..Len(s)) \X alphabet}
    \cup (IF Len(s) < maxlen
          THEN {SubSeq(s, 1, i[1]) \o <<i[2]>> \o SubSeq(s, i[1] + 1, Len(s)) :
                   i \in (0..Len(s)) \X alphabet}
          ELSE {})

\* the least number of edits after which target is among the sequences
\* reached, n edits having led to the sequences of reached
RECURSIVE EditsUntil(_, _, _, _, _)
EditsUntil(reached, target, alphabet, maxlen, n) ==
    IF target \in reached THEN n
    ELSE EditsUntil(reached \cup UNION {OneEdit(s, alphabet, maxlen) :
                                           s \in reached},
                    target, alphabet, maxlen, n + 1)

\* the minimum number of single-element edits turning from into to (an
\* element that is in neither sequence is of no use in a shortest script,
\* nor is a sequence longer than both)
MinEdits(from, to) ==
    EditsUntil({from}, to, Elements(from) \cup Elements(to),
               Max(Len(from), Len(to)), 0)

\* the rate r is the fraction n / d
RateIs(r, n, d) == r.num * d = n * r.den

\* the rate the claim gives for the ground truth gt and the prediction pred
RateAsClaimed(r, gt, pred) ==
    /\ gt # <<>> => RateIs(r, MinEdits(pred, gt), Len(gt))
    /\ gt = pred => RateIs(r, 0, 1)
    /\ (pred = <<>> /\ gt # <<>>) => RateIs(r, 1, 1)
    /\ gt = <<>> => IF pred = <<>> THEN RateIs(r, 0, 1) ELSE RateIs(r, 1, 1)

\* an AccuracyMetrics::calculate that has returned
Calculated(t) == loc[t].op = "calculate" /\ pc[t] = "done"

\* C21: the character error rate and the word error rate are the minimum
\* number of single-element insertions, deletions and substitutions that
\* turn the predicted sequence (of grapheme clusters, of words) into the
\* ground truth, divided by the length of the ground truth; 0 for equal
\* inputs, 1 for an empty prediction of a ground truth that is not empty;
\* for an empty ground truth 0 when the prediction is empty and 1 if not.
C21_RatesAreEditDistance ==
    \A t \in Tasks :
        Calculated(t)
        => /\ RateAsClaimed(result[t].cer, Graphemes(loc[t].ground_truth),
                            Graphemes(loc[t].predicted))
           /\ RateAsClaimed(result[t].wer,
                            SplitWhitespace(loc[t].ground_truth),
                            SplitWhitespace(loc[t].predicted))
           /\ loc[t].ground_truth = loc[t].predicted
              => RateIs(result[t].cer, 0, 1) /\ RateIs(result[t].wer, 0, 1)

\* a prediction that differs from a ground truth of two words by one
\* substituted cluster: the character rate is 1/3, the word rate 1/2
C21_Witness ==
    \E t \in Tasks :
        /\ Calculated(t)
        /\ Len(loc[t].ground_truth) = Len(loc[t].predicted)
        /\ Len(SplitWhitespace(loc[t].ground_truth)) = 2
        /\ Len(SplitWhitespace(loc[t].predicted)) = 2
        /\ RateIs(result[t].cer, 1, 3)
        /\ RateIs(result[t].wer, 1, 2)

\* ------------------------------------------------------------ hot_reload.rs
\* should_trigger_reload: the kind is one of watched_kinds and the file
\* name one of watched_files
watched_files ==
    {"det.onnx", "rec.onnx", "cls.onnx", "dictionary.txt", "config.json"}
watched_kinds ==
    {"Create(File)", "Modify(Data(Any))", "Modify(Name(Any))"}

should_trigger_reload(event) ==
    event.kind \in watched_kinds /\ event.file_name \in watched_files

\* the states of a spawned reload task: asleep for the debounce time,
\* cancelled by abort(), or finished after calling reload_callback
Ran == {"reloaded", "reload_failed"}

\* no reload task of the burst has finished its debounce sleep
WindowOpen == \A h \in 1..Len(reloads) : reloads[h] \notin Ran

\* The closure handed to RecommendedWatcher::new, called with one result of
\* the watcher: a watched event spawns the scheduling task of
\* schedule_reload, anything else is dropped or logged.
WatchEvent(t, res) ==
    /\ pc[t] = "idle"
    /\ WindowOpen
    /\ loc' = [loc EXCEPT ![t] =
                 [NoCall EXCEPT !.op = "schedule_reload", !.event = res]]
    /\ IF ~res.ok THEN Finish(t, Failure("WatchError"), <<"log_error">>)
       ELSE IF should_trigger_reload(res) THEN Goto(t, "reload_take", <<"spawn">>)
       ELSE Finish(t, Failure("NotWatched"), <<>>)
    /\ UNCHANGED <<reload_vars, ocr_vars, inpaint_image_cache,
                   inpaint_mask_cache, lama, comic_text_detector>>

\* JoinHandle::abort: a task that has not finished is cancelled
Abort(tasks, handle) ==
    IF tasks[handle] = "sleeping" THEN [tasks EXCEPT ![handle] = "aborted"]
    ELSE tasks

\* faulty variant of CancelPending: a task that has aborted a pending
\* reload returns without scheduling a new one
CancelPendingAndStop(t) ==
    /\ pc[t] = "reload_take"
    /\ pending_reload' = 0
    /\ IF pending_reload # 0
       THEN /\ reloads' = Abort(reloads, pending_reload)
            /\ Finish(t, [NoResult EXCEPT !.status = "ok"], <<"take", "abort">>)
       ELSE /\ UNCHANGED reloads
            /\ Goto(t, "reload_spawn", <<"take">>)
    /\ UNCHANGED <<ocr_vars, inpaint_image_cache, inpaint_mask_cache, lama,
                   comic_text_detector, loc>>

\* schedule_reload, first statement of the spawned task: under the mutex
\* the pending handle is taken out and, when there is one, aborted
CancelPending(t) ==
    /\ pc[t] = "reload_take"
    /\ pending_reload' = 0
    /\ IF pending_reload # 0
       THEN /\ reloads' = Abort(reloads, pending_reload)
            /\ Goto(t, "reload_spawn", <<"take", "abort">>)
       ELSE /\ UNCHANGED reloads
            /\ Goto(t, "reload_spawn", <<"take">>)
    /\ UNCHANGED <<ocr_vars, inpaint_image_cache, inpaint_mask_cache, lama,
                   comic_text_detector, loc>>

\* let handle = tokio::spawn(..): the reload task starts its debounce sleep
SpawnReload(t) ==
    /\ pc[t] = "reload_spawn"
    /\ reloads' = Append(reloads, "sleeping")
    /\ loc' = [loc EXCEPT ![t].handle = Len(reloads) + 1]
    /\ Goto(t, "reload_store", <<"spawn_reload">>)
    /\ UNCHANGED <<pending_reload, ocr_vars, inpaint_image_cache,
                   inpaint_mask_cache, lama, comic_text_detector>>

\* *pending_reload.lock().await = Some(handle): the handle that was there
\* is dropped, which detaches its task
StorePending(t) ==
    /\ pc[t] = "reload_store"
    /\ pending_reload' = loc[t].handle
    /\ Finish(t, [NoResult EXCEPT !.status = "ok"], <<"store">>)
    /\ UNCHANGED <<reloads, ocr_vars, inpaint_image_cache, inpaint_mask_cache,
                   lama, comic_text_detector, loc>>

\* The reload task of handle h: the debounce sleep is over and
\* reload_callback is called; its error, if any, is logged.
Reload(h, ok) ==
    /\ h \in 1..Len(reloads)
    /\ reloads[h] = "sleeping"
    /\ reloads' = [reloads EXCEPT ![h] = IF ok THEN "reloaded"
                                         ELSE "reload_failed"]
    /\ UNCHANGED <<pending_reload, ocr_vars, inpaint_image_cache,
                   inpaint_mask_cache, lama, comic_text_detector, pc, loc,
                   log, result>>

\* the results the watcher delivers
WatchResults ==
    {NoEvent}
    \cup {[ok |-> TRUE, kind |-> k, file_name |-> f] :
             k \in {"Modify(Data(Any))", "Modify(Name(Both))"},
             f \in {"det.onnx", "det.onnx.tmp"}}

\* One burst of watcher results: each task is called with one result, and
\* no result arrives once a reload task has come to the end of its sleep.
ReloadNext ==
    \/ \E t \in Tasks, res \in WatchResults : WatchEvent(t, res)
    \/ \E t \in Tasks : CancelPending(t)
    \/ \E t \in Tasks : SpawnReload(t)
    \/ \E t \in Tasks : StorePending(t)
    \/ \E h \in Tasks, ok \in BOOLEAN : Reload(h, ok)

ReloadSpec == Init /\ [][ReloadNext]_vars

\* The runtime polls every spawned task that can run, the lock of the
\* tokio mutex is granted in turn, and a sleep comes to its end.
ReloadFairSpec ==
    /\ ReloadSpec
    /\ \A t \in Tasks : /\ WF_vars(CancelPending(t))
                        /\ WF_vars(SpawnReload(t))
                        /\ WF_vars(StorePending(t))
    /\ \A h \in Tasks : WF_vars(\E ok \in BOOLEAN : Reload(h, ok))

\* the reload tasks that have called reload_callback
Reloaded == {h \in 1..Len(reloads) : reloads[h] \in Ran}

\* a watched event has spawned the scheduling task t
Scheduled(t) == loc[t].op = "schedule_reload" /\ "spawn" \in Events(t)

\* C24 (as stated): scheduling a reload cancels the pending one, so for the
\* watched events of one debounce window reload_callback runs at most once,
\* under every interleaving of the scheduling tasks.
C24_AtMostOneReloadPerBurst == Cardinality(Reloaded) <= 1

====
